---- MODULE Spec2Model ----
(***************************************************************************)
(* Vacancy Aggregation & Enrichment Engine (app/services/vacancies.py,     *)
(* app/repositories/vacancies.py, app/clients/*, app/services/             *)
(* parsing_vacancies.py) as a state machine.                               *)
(*                                                                         *)
(* Specifications:                                                         *)
(*   SpecNorm  the Location Normalizer applied to typed-in strings         *)
(*   Spec      search / list / detail requests served one at a time        *)
(*   SpecConc  the same requests overlapping on the store                  *)
(*   SpecSync  _save_vacancies_data called with arbitrary item lists       *)
(*   SpecFav   one favorites batch enrichment under the semaphore          *)
(*   SpecParse the list parsers applied to one raw vendor posting          *)
(*   SpecFetch the vendor clients under every HTTP outcome                 *)
(*   SpecListing  one multi-page listing fetch of one client               *)
(*   SpecFavorites  all requests plus the favorites of one user            *)
(*   SpecFavStore   add / remove / list favorites by two users             *)
(***************************************************************************)
EXTENDS Integers, Sequences, FiniteSets, TLC

VARIABLES
    location,        \* SpecNorm: the free-text locality typed so far (sequence of symbols)
    verified,        \* SpecNorm: result of _location_name_verification(location)
    vacanciesTable,  \* the `vacancies` table: sequence of rows in table order
    req,             \* per request: position in its handler and its local variables
    runs,            \* number of aggregation runs (sync generations) started so far
    favTasks,        \* SpecFav: per favorite entry of the page, the state of its task
    semaphore,       \* SpecFav: free permits of VacanciesService.semaphore
    batch,           \* SpecFav: state of the awaiting _compile_enriched_favorite_vacancies
    favoritesTable,  \* the `favorite_vacancies` table: sequence of rows in table order
    rawRecord,       \* SpecParse: one raw posting of a vendor listing
    parsedRecord,    \* SpecParse: what the list parser made of rawRecord
    fetchLog,        \* SpecFetch: the requests made to the vendors and how each was surfaced
    listing          \* SpecListing: one multi-page listing fetch of one client

vars == <<location, verified, vacanciesTable, req, runs, favTasks, semaphore, batch,
          favoritesTable, rawRecord, parsedRecord, fetchLog, listing>>

(***************************************************************************)
(* Bounds                                                                  *)
(***************************************************************************)
MaxLen == 7

(***************************************************************************)
(* Symbols.  A symbol stands for a class of characters with the same       *)
(* behaviour under str.isalpha, str.isspace, str.capitalize and the        *)
(* regular expression [А-Яа-яЁё\s\-].                                      *)
(***************************************************************************)
CyrLower == "cyr_l"
CyrUpper == "CYR_U"
LatLower == "lat_l"
LatUpper == "LAT_U"
Digit    == "digit"
Space    == "space"
Hyphen   == "hyphen"

\* symbols a caller can type
Symbols == {CyrLower, CyrUpper, LatLower, Digit, Space, Hyphen}

\* str.isalpha on one character
IsAlpha(c) == c \in {CyrLower, CyrUpper, LatLower, LatUpper}

\* str.isspace on one character
IsSpace(c) == c = Space

\* one character of the class [А-Яа-яЁё\s\-]
IsRussianOrSep(c) == c \in {CyrLower, CyrUpper, Space, Hyphen}

\* str.upper / str.lower on one character
Upper(c) == CASE c = CyrLower -> CyrUpper
              [] c = LatLower -> LatUpper
              [] OTHER -> c

Lower(c) == CASE c = CyrUpper -> CyrLower
              [] c = LatUpper -> LatLower
              [] OTHER -> c

\* str.isalpha / str.isspace on a string: non-empty and every character passes
StrIsAlpha(s) == Len(s) > 0 /\ \A i \in 1..Len(s) : IsAlpha(s[i])
StrIsSpace(s) == Len(s) > 0 /\ \A i \in 1..Len(s) : IsSpace(s[i])

\* str.capitalize: first character upper-cased, the rest lower-cased
Capitalize(s) == [i \in 1..Len(s) |-> IF i = 1 THEN Upper(s[i]) ELSE Lower(s[i])]

\* location.split("-"): every piece between hyphens, empty pieces kept
RECURSIVE SplitHyphenRec(_, _, _)
SplitHyphenRec(s, cur, acc) ==
    IF s = <<>> THEN Append(acc, cur)
    ELSE IF Head(s) = Hyphen
         THEN SplitHyphenRec(Tail(s), <<>>, Append(acc, cur))
         ELSE SplitHyphenRec(Tail(s), Append(cur, Head(s)), acc)

SplitHyphen(s) == SplitHyphenRec(s, <<>>, <<>>)

\* location.split(): maximal runs of non-whitespace, no empty pieces
RECURSIVE SplitWhitespaceRec(_, _, _)
SplitWhitespaceRec(s, cur, acc) ==
    IF s = <<>> THEN (IF cur = <<>> THEN acc ELSE Append(acc, cur))
    ELSE IF IsSpace(Head(s))
         THEN SplitWhitespaceRec(Tail(s), <<>>,
                                 IF cur = <<>> THEN acc ELSE Append(acc, cur))
         ELSE SplitWhitespaceRec(Tail(s), Append(cur, Head(s)), acc)

SplitWhitespace(s) == SplitWhitespaceRec(s, <<>>, <<>>)

\* sep.join(parts)
RECURSIVE Join(_, _)
Join(parts, sep) ==
    IF parts = <<>> THEN <<>>
    ELSE IF Len(parts) = 1 THEN parts[1]
    ELSE parts[1] \o <<sep>> \o Join(Tail(parts), sep)

MAX_COUNT_PARTS_IN_LOCATION == 3

\* VacanciesService._is_hyphen_exist
IsHyphenExist(loc) ==
    IF \E i \in 1..Len(loc) : loc[i] = Hyphen
    THEN [hyphen |-> TRUE,  split_location |-> SplitHyphen(loc)]
    ELSE [hyphen |-> FALSE, split_location |-> SplitWhitespace(loc)]

\* the whole-string match ^[А-Яа-яЁё\s\-]+\Z
MatchesRussian(loc) == Len(loc) > 0 /\ \A i \in 1..Len(loc) : IsRussianOrSep(loc[i])

\* _validate_location without the limit on the number of parts
ValidateLocation_NoPartsLimit(loc, split_location) ==
    IF ~ \A i \in 1..Len(split_location) :
            StrIsSpace(split_location[i]) \/ StrIsAlpha(split_location[i])
    THEN "not_alpha"
    ELSE IF ~ (Len(loc) > 0 /\ \A i \in 1..Len(loc) : IsRussianOrSep(loc[i]))
         THEN "not_russian"
    ELSE "ok"

\* VacanciesService._validate_location: "ok" or the check that raised
ValidateLocation(loc, split_location) ==
    IF Len(split_location) > MAX_COUNT_PARTS_IN_LOCATION THEN "too_many_parts"
    ELSE IF ~ \A i \in 1..Len(split_location) :
                 StrIsSpace(split_location[i]) \/ StrIsAlpha(split_location[i])
         THEN "not_alpha"
    ELSE IF ~ MatchesRussian(loc) THEN "not_russian"
    ELSE "ok"

\* VacanciesService._normalize_location
NormalizeLocation(parts, hyphen) ==
    Join([i \in 1..Len(parts) |-> Capitalize(parts[i])],
         IF hyphen THEN Hyphen ELSE Space)

\* VacanciesService._location_name_verification
LocationNameVerification(loc) ==
    LET h == IsHyphenExist(loc)
        v == ValidateLocation(loc, h.split_location)
    IN IF v = "ok"
       THEN [status |-> "ok", value |-> NormalizeLocation(h.split_location, h.hyphen),
             error |-> "none"]
       ELSE [status |-> "LocationValidationError", value |-> <<>>, error |-> v]

NotVerified == [status |-> "none", value |-> <<>>, error |-> "none"]

(***************************************************************************)
(* SpecNorm: a caller types a string and submits it to the normalizer.     *)
(***************************************************************************)
NoRecord == [vendor |-> "none"]
NotParsed == [status |-> "none"]

\* the variables of SpecParse and SpecFetch start empty and stay so elsewhere
NoListing == [vendor |-> "none", pc |-> "idle", first |-> "", count_pages |-> 0,
              pages |-> <<>>, items |-> <<>>, result |-> "pending"]
AuxInit ==
    /\ rawRecord = NoRecord /\ parsedRecord = NotParsed /\ fetchLog = <<>>
    /\ listing = NoListing
auxIdle == UNCHANGED <<rawRecord, parsedRecord, fetchLog, listing>>

othersIdle ==
    UNCHANGED <<vacanciesTable, req, runs, favTasks, semaphore, batch, favoritesTable>> /\ auxIdle

TypeSymbol(c) ==
    /\ verified.status = "none"
    /\ Len(location) < MaxLen
    /\ location' = Append(location, c)
    /\ UNCHANGED verified
    /\ othersIdle

Verify ==
    /\ verified.status = "none"
    /\ verified' = LocationNameVerification(location)
    /\ UNCHANGED location
    /\ othersIdle

InitNorm ==
    /\ location = <<>>
    /\ verified = NotVerified
    /\ vacanciesTable = <<>>
    /\ req = <<>>
    /\ runs = 0
    /\ favTasks = <<>>
    /\ semaphore = 0
    /\ batch = [state |-> "idle", n |-> 0, results |-> <<>>, exc |-> "none"]
    /\ favoritesTable = <<>>
    /\ AuxInit

NextNorm == (\E c \in Symbols : TypeSymbol(c)) \/ Verify

SpecNorm == InitNorm /\ [][NextNorm]_vars

(***************************************************************************)
(* Location Normalizer properties (SpecNorm)                               *)
(***************************************************************************)
HasHyphen(s) == \E i \in 1..Len(s) : s[i] = Hyphen
HasDigit(s) == \E i \in 1..Len(s) : s[i] = Digit
HasForeignSymbol(s) == \E i \in 1..Len(s) : s[i] \notin {CyrLower, CyrUpper, Space, Hyphen}

\* number of parts, counted without building them: one more than the hyphens
\* in hyphen mode, else the number of places where a run of non-blanks starts
PartsCount(s) ==
    IF HasHyphen(s)
    THEN 1 + Cardinality({i \in 1..Len(s) : s[i] = Hyphen})
    ELSE Cardinality({i \in 1..Len(s) : ~IsSpace(s[i]) /\ (i = 1 \/ IsSpace(s[i-1]))})

InvalidInput(s) ==
    HasDigit(s) \/ PartsCount(s) > MAX_COUNT_PARTS_IN_LOCATION \/ HasForeignSymbol(s)

\* C8: the normalizer is idempotent on its own outputs: the output of every
\* accepted input is accepted again and normalizes to itself.
C8_NormalizerIdempotent ==
    verified.status = "ok" =>
        LET again == LocationNameVerification(verified.value)
        IN again.status = "ok" /\ again.value = verified.value

\* C9: an input with a digit, with more than 3 parts, or with a symbol other
\* than Cyrillic letters, whitespace and hyphen raises LocationValidationError
\* and yields no locality.
C9_InvalidInputsRaise ==
    (verified.status # "none" /\ InvalidInput(location)) =>
        (verified.status = "LocationValidationError" /\ verified.value = <<>>)

\* a purely Cyrillic input of four blank-separated words was submitted and rejected
C9_Witness ==
    /\ verified.status = "LocationValidationError"
    /\ PartsCount(location) > MAX_COUNT_PARTS_IN_LOCATION
    /\ ~HasHyphen(location) /\ ~HasDigit(location) /\ ~HasForeignSymbol(location)

(***************************************************************************)
(* Vendors, raw records and the vacancies table                            *)
(***************************************************************************)
NumRequests == 2   \* request slots served concurrently in SpecConc
MaxRuns == 2       \* aggregation runs started in one behaviour
MaxPage == 2       \* page numbers 1..MaxPage are requested
MaxPageSize == 2   \* page sizes 1..MaxPageSize are requested

\* VacanciesParsingService.VACANCY_SOURCES
SOURCE_HH == "hh.ru"
SOURCE_TV == "Rabota Rossii"   \* the tag "Работа России", transliterated
\* a tag neither parser writes (db/models/base_vacancy.py names it as an example)
SOURCE_OTHER == "trudvsem.ru"

HHIds == {"h1", "h2"}
TVIds == {"t1"}
LegacyId == "x1"
VacancyIds == HHIds \cup TVIds \cup {LegacyId}

\* one raw posting of a vendor listing; broken: the record has a shape the
\* parser's mapping raises on
Raw(id, broken) == [id |-> id, employer |-> <<"emp", id>>, broken |-> broken]

\* what the HH listing endpoint answers to one search
HHListingAnswers ==
    { [kind |-> "request_error", items |-> <<>>],
      [kind |-> "malformed",     items |-> <<>>],
      [kind |-> "not_found",     items |-> <<>>],
      [kind |-> "ok",            items |-> <<>>],
      [kind |-> "ok",            items |-> <<Raw("h1", FALSE)>>],
      [kind |-> "ok",            items |-> <<Raw("h1", FALSE), Raw("h2", FALSE)>>],
      [kind |-> "ok",            items |-> <<Raw("h1", FALSE), Raw("h2", TRUE)>>] }

\* what the TV listing endpoint answers to one search
TVListingAnswers ==
    { [kind |-> "request_error", items |-> <<>>],
      [kind |-> "malformed",     items |-> <<>>],
      [kind |-> "ok",            items |-> <<>>],
      [kind |-> "ok",            items |-> <<Raw("t1", FALSE)>>],
      [kind |-> "ok",            items |-> <<Raw("t1", TRUE)>>] }

\* the localities searched: raw inputs and the keys they normalize to
SearchInputs == { <<CyrLower>>, <<CyrUpper, CyrUpper>>, <<Digit>> }
Localities == { <<CyrUpper>>, <<CyrUpper, CyrLower>> }

\* region codes known to the region table, and one that is not
KnownRegions == {"77"}
RegionCodes == {"77", "00"}

\* a row of the `vacancies` table.  gen is not a column: it records the
\* aggregation run that inserted the row (0: stored before the service started)
Row(id, loc, source, employer, gen) ==
    [vacancy_id |-> id, location |-> loc, vacancy_source |-> source,
     employer_code |-> employer, gen |-> gen]

LegacyRow == Row(LegacyId, <<CyrUpper>>, SOURCE_OTHER, <<"emp", LegacyId>>, 0)

InitialTables == { <<>>, <<LegacyRow>>,
                   <<Row("h2", <<CyrUpper>>, SOURCE_HH, <<"emp", "h2">>, 0)>> }

\* SELECT ... WHERE location = loc, in table order
RowsOf(table, loc) == LET K(row) == row.location = loc IN SelectSeq(table, K)

\* VacanciesRepository.get_count_vacancies
GetCountVacancies(table, loc) == Len(RowsOf(table, loc))

\* the page query with the offset one page too far
GetVacancies_NextPage(table, loc, page, page_size) ==
    LET rows == RowsOf(table, loc)
        offset == page * page_size
        last == IF offset + page_size < Len(rows) THEN offset + page_size ELSE Len(rows)
    IN IF offset >= Len(rows) THEN <<>> ELSE SubSeq(rows, offset + 1, last)

\* VacanciesRepository.get_vacancies: OFFSET (page-1)*page_size LIMIT page_size
GetVacancies(table, loc, page, page_size) ==
    LET rows == RowsOf(table, loc)
        offset == (page - 1) * page_size
        last == IF offset + page_size < Len(rows) THEN offset + page_size ELSE Len(rows)
    IN IF offset >= Len(rows) THEN <<>> ELSE SubSeq(rows, offset + 1, last)

\* VacanciesRepository.get_vacancy_by_id: the rows with that vacancy_id
GetVacancyById(table, vacancy_id) ==
    LET K(row) == row.vacancy_id = vacancy_id IN SelectSeq(table, K)

\* a delete that removes nothing
DeleteByLocation_Nothing(table, loc) == table

\* DELETE FROM vacancies WHERE location = loc
DeleteByLocation(table, loc) == LET K(row) == row.location # loc IN SelectSeq(table, K)

\* the unique constraint on vacancies.vacancy_id rejects the insert
ViolatesUnique(table, rows) ==
    \/ \E i \in 1..Len(rows), j \in 1..Len(table) : rows[i].vacancy_id = table[j].vacancy_id
    \/ \E i, j \in 1..Len(rows) : i # j /\ rows[i].vacancy_id = rows[j].vacancy_id

(***************************************************************************)
(* Parsers and source pipelines                                            *)
(***************************************************************************)
NoResult == [exc |-> "pending", vacancies |-> <<>>, vacancies_count |-> 0]
Raised(name) == [exc |-> name, vacancies |-> <<>>, vacancies_count |-> 0]

\* a parser that drops the records it cannot map instead of raising
RECURSIVE ParceVacanciesHH_SkipsBroken(_, _, _)
ParceVacanciesHH_SkipsBroken(raw, loc, parsed) ==
    IF raw = <<>> THEN [exc |-> "none", vacancies |-> parsed]
    ELSE IF Head(raw).broken THEN ParceVacanciesHH_SkipsBroken(Tail(raw), loc, parsed)
    ELSE ParceVacanciesHH_SkipsBroken(Tail(raw), loc,
             Append(parsed, Row(Head(raw).id, loc, SOURCE_HH, Head(raw).employer, 0)))

\* VacanciesParsingService.parce_vacancies_hh: the loop over the raw records
RECURSIVE ParceVacanciesHH(_, _, _)
ParceVacanciesHH(raw, loc, parsed) ==
    IF raw = <<>> THEN [exc |-> "none", vacancies |-> parsed]
    ELSE IF Head(raw).broken THEN [exc |-> "VacancyParseError", vacancies |-> <<>>]
    ELSE ParceVacanciesHH(Tail(raw), loc,
             Append(parsed, Row(Head(raw).id, loc, SOURCE_HH, Head(raw).employer, 0)))

\* VacanciesParsingService.parce_vacancies_tv: the loop over the raw records
RECURSIVE ParceVacanciesTV(_, _, _)
ParceVacanciesTV(raw, loc, parsed) ==
    IF raw = <<>> THEN [exc |-> "none", vacancies |-> parsed]
    ELSE IF Head(raw).broken THEN [exc |-> "VacancyParseError", vacancies |-> <<>>]
    ELSE ParceVacanciesTV(Tail(raw), loc,
             Append(parsed, Row(Head(raw).id, loc, SOURCE_TV, Head(raw).employer, 0)))

\* HHClient.get_vacansies_in_location seen from its caller
HHGetVacansiesInLocation(answer) ==
    CASE answer.kind = "request_error" -> [exc |-> "HHAPIRequestError", raw |-> <<>>]
      [] answer.kind = "malformed"     -> [exc |-> "Exception", raw |-> <<>>]
      [] answer.kind = "not_found"     -> [exc |-> "none", raw |-> <<>>]
      [] OTHER                         -> [exc |-> "none", raw |-> answer.items]

\* TVClient.get_vacansies_in_region seen from its caller
TVGetVacansiesInRegion(answer) ==
    CASE answer.kind = "request_error" -> [exc |-> "TVAPIRequestError", raw |-> <<>>]
      [] answer.kind = "malformed"     -> [exc |-> "Exception", raw |-> <<>>]
      [] OTHER                         -> [exc |-> "none", raw |-> answer.items]

\* VacanciesService._get_vacancies_hh_api
GetVacanciesHHApi(answer, loc) ==
    LET fetched == HHGetVacansiesInLocation(answer)
        parsed == ParceVacanciesHH(fetched.raw, loc, <<>>)
    IN IF fetched.exc # "none" THEN Raised(fetched.exc)
       ELSE IF fetched.raw = <<>> THEN Raised("VacanciesNotFoundError")
       ELSE IF parsed.exc # "none" THEN Raised(parsed.exc)
       ELSE [exc |-> "none", vacancies |-> parsed.vacancies,
             vacancies_count |-> Len(fetched.raw)]

\* VacanciesService._get_vacancies_tv_api
GetVacanciesTVApi(answer, loc) ==
    LET fetched == TVGetVacansiesInRegion(answer)
        parsed == ParceVacanciesTV(fetched.raw, loc, <<>>)
    IN IF fetched.exc # "none" THEN Raised(fetched.exc)
       ELSE IF fetched.raw = <<>> THEN Raised("VacanciesNotFoundError")
       ELSE IF parsed.exc # "none" THEN Raised(parsed.exc)
       ELSE [exc |-> "none", vacancies |-> parsed.vacancies,
             vacancies_count |-> Len(parsed.vacancies)]

NoOutcome ==
    [vacancies |-> <<>>, error_request_hh |-> FALSE, error_request_tv |-> FALSE,
     error_details_hh |-> "", error_details_tv |-> "",
     all_vacancies_count |-> 0, vacancies_count_hh |-> 0, vacancies_count_tv |-> 0]

\* the outcome built without the `elif isinstance(result, Exception)` branches:
\* an exception of another type makes the whole aggregation fail
GetVacanciesDataFromApis_KnownOnly(hh_result, tv_result) ==
    LET known == {"VacanciesNotFoundError", "HHAPIRequestError", "TVAPIRequestError",
                  "VacancyParseError", "none"}
        hhFailed == hh_result.exc # "none"
        tvFailed == tv_result.exc # "none"
    IN IF hh_result.exc \notin known \/ tv_result.exc \notin known
       THEN [NoOutcome EXCEPT !.error_request_hh = TRUE, !.error_request_tv = TRUE]
       ELSE [vacancies |-> (IF hhFailed THEN <<>> ELSE hh_result.vacancies)
                             \o (IF tvFailed THEN <<>> ELSE tv_result.vacancies),
             error_request_hh |-> hhFailed,
             error_request_tv |-> tvFailed,
             error_details_hh |-> IF hhFailed THEN hh_result.exc ELSE "",
             error_details_tv |-> IF tvFailed THEN tv_result.exc ELSE "",
             all_vacancies_count |->
                 (IF hhFailed THEN 0 ELSE hh_result.vacancies_count)
                   + (IF tvFailed THEN 0 ELSE tv_result.vacancies_count),
             vacancies_count_hh |-> IF hhFailed THEN 0 ELSE hh_result.vacancies_count,
             vacancies_count_tv |-> IF tvFailed THEN 0 ELSE tv_result.vacancies_count]

\* a parse error taken for an empty but successful source
GetVacanciesDataFromApis_ParseNotFailure(hh_result, tv_result) ==
    LET Cleared(res) == IF res.exc = "VacancyParseError"
                        THEN [res EXCEPT !.exc = "none"] ELSE res
    IN GetVacanciesDataFromApis_KnownOnly(Cleared(hh_result), Cleared(tv_result))

\* VacanciesService._get_vacancies_data_from_apis after gather returned:
\* results[0] is hh_result, results[1] is tv_result
GetVacanciesDataFromApis(hh_result, tv_result) ==
    LET hhKnown == hh_result.exc \in {"VacanciesNotFoundError", "HHAPIRequestError",
                                      "VacancyParseError"}
        hhOther == ~hhKnown /\ hh_result.exc # "none"
        tvKnown == tv_result.exc \in {"VacanciesNotFoundError", "TVAPIRequestError",
                                      "VacancyParseError"}
        tvOther == ~tvKnown /\ tv_result.exc # "none"
        hhVac == IF hhKnown \/ hhOther THEN <<>> ELSE hh_result.vacancies
        tvVac == IF tvKnown \/ tvOther THEN <<>> ELSE tv_result.vacancies
        countHH == IF hhKnown \/ hhOther THEN 0 ELSE hh_result.vacancies_count
        countTV == IF tvKnown \/ tvOther THEN 0 ELSE tv_result.vacancies_count
    IN [vacancies |-> hhVac \o tvVac,
        error_request_hh |-> hhKnown \/ hhOther,
        error_request_tv |-> tvKnown \/ tvOther,
        error_details_hh |-> IF hhKnown \/ hhOther THEN hh_result.exc ELSE "",
        error_details_tv |-> IF tvKnown \/ tvOther THEN tv_result.exc ELSE "",
        all_vacancies_count |-> countHH + countTV,
        vacancies_count_hh |-> countHH,
        vacancies_count_tv |-> countTV]

(***************************************************************************)
(* Single-vacancy detail from the owning vendor                            *)
(***************************************************************************)
\* what the HH single-item endpoint answers, and what the parsed record is like
HHOneAnswers == {"request_error", "not_found", "ok", "ok_broken", "ok_invalid"}

\* what the TV single-item endpoint answers: a failed request, a record, a
\* record the parser raises on, a record failing the output schema, an empty
\* vacancy record, a result without "vacancies", an empty "vacancies" list
TVOneAnswers == {"request_error", "ok", "ok_broken", "ok_invalid",
                 "empty_record", "no_vacancies", "empty_list"}

\* VacanciesService._get_vacancy_details_hh_api (HHClient.get_one_vacancy, then
\* parce_vacancy_details_hh): the exception raised, or "none" and the parsed record
GetVacancyDetailsHHApi(answer) ==
    CASE answer = "request_error" -> "HHAPIRequestError"
      [] answer = "not_found"     -> "VacancyNotFoundError"
      [] answer = "ok_broken"     -> "VacancyParseError"
      [] answer = "ok_invalid"    -> "parsed_invalid"
      [] OTHER                    -> "parsed"

\* VacanciesService._get_vacancy_details_tv_api (TVClient.get_one_vacancy, then
\* parce_vacancy_details_tv)
GetVacancyDetailsTVApi(answer) ==
    CASE answer = "request_error" -> "TVAPIRequestError"
      [] answer = "no_vacancies"  -> "AttributeError"
      [] answer = "empty_list"    -> "IndexError"
      [] answer = "empty_record"  -> "VacancyNotFoundError"
      [] answer = "ok_broken"     -> "VacancyParseError"
      [] answer = "ok_invalid"    -> "parsed_invalid"
      [] OTHER                    -> "parsed"

\* the end of get_vacancy_details: VacancyDetailsOutSchema.model_validate
DetailStatus(fetched) ==
    CASE fetched = "parsed"         -> "ok"
      [] fetched = "parsed_invalid" -> "VacanciesServiceError"
      [] OTHER                      -> fetched

(***************************************************************************)
(* Requests                                                                *)
(***************************************************************************)
Idle ==
    [op |-> "idle", pc |-> "idle", status |-> "none", detail |-> "",
     location |-> <<>>, run |-> 0, hh |-> NoResult, tv |-> NoResult,
     outcome |-> NoOutcome, writes |-> <<>>, calls |-> {},
     page |-> 0, page_size |-> 0, total |-> 0, items |-> <<>>,
     vacancy_id |-> "", source |-> "", answer |-> "", user_id |-> 0]

normIdle == UNCHANGED <<location, verified>> /\ auxIdle
batchIdle == UNCHANGED <<favTasks, semaphore, batch>>
favIdle == batchIdle /\ UNCHANGED favoritesTable

\* the total failure raised as soon as one source failed
AllSourcesFailed_Any(outcome) == outcome.error_request_hh \/ outcome.error_request_tv

\* the total failure never raised
AllSourcesFailed_Never(outcome) == FALSE

\* get_vacancies_info, line 120: both sources failed
AllSourcesFailed(outcome) == outcome.error_request_hh /\ outcome.error_request_tv

\* the handler with the region looked up before the locality is verified
StartSearch_RegionFirst(r, raw, code) ==
    /\ req[r].op = "idle"
    /\ runs < MaxRuns
    /\ LET v == LocationNameVerification(raw)
           called == [Idle EXCEPT !.op = "search", !.pc = "done",
                                  !.calls = {<<"region", code>>}]
       IN \E dbok \in BOOLEAN :
            IF ~dbok
            THEN /\ req' = [req EXCEPT ![r] = [called EXCEPT !.status = "RegionRepositoryError"]]
                 /\ UNCHANGED runs
            ELSE IF code \notin KnownRegions
            THEN /\ req' = [req EXCEPT ![r] = [called EXCEPT !.status = "RegionNotFoundError"]]
                 /\ UNCHANGED runs
            ELSE IF v.status # "ok"
            THEN /\ req' = [req EXCEPT ![r] = [called EXCEPT !.status = v.status]]
                 /\ UNCHANGED runs
            ELSE /\ req' = [req EXCEPT ![r] =
                       [called EXCEPT !.pc = "fetching", !.status = "running",
                                      !.location = v.value, !.run = runs + 1,
                                      !.calls = {<<"region", code>>, <<"hh_listing">>,
                                                 <<"tv_listing">>}]]
                 /\ runs' = runs + 1
    /\ UNCHANGED vacanciesTable /\ normIdle /\ favIdle

\* search: validation_and_get_region_data, then get_vacancies_info up to the
\* gather of the two source pipelines
StartSearch(r, raw, code) ==
    /\ req[r].op = "idle"
    /\ runs < MaxRuns
    /\ LET v == LocationNameVerification(raw)
       IN IF v.status # "ok"
          THEN /\ req' = [req EXCEPT ![r] = [Idle EXCEPT !.op = "search", !.pc = "done",
                                                        !.status = v.status]]
               /\ UNCHANGED runs
          ELSE \E dbok \in BOOLEAN :
                 IF ~dbok
                 THEN /\ req' = [req EXCEPT ![r] =
                            [Idle EXCEPT !.op = "search", !.pc = "done",
                                         !.location = v.value, !.calls = {<<"region", code>>},
                                         !.status = "RegionRepositoryError"]]
                      /\ UNCHANGED runs
                 ELSE IF code \notin KnownRegions
                 THEN /\ req' = [req EXCEPT ![r] =
                            [Idle EXCEPT !.op = "search", !.pc = "done",
                                         !.location = v.value, !.calls = {<<"region", code>>},
                                         !.status = "RegionNotFoundError"]]
                      /\ UNCHANGED runs
                 ELSE /\ req' = [req EXCEPT ![r] =
                            [Idle EXCEPT !.op = "search", !.pc = "fetching",
                                         !.status = "running",
                                         !.location = v.value, !.run = runs + 1,
                                         !.calls = {<<"region", code>>, <<"hh_listing">>,
                                                    <<"tv_listing">>}]]
                      /\ runs' = runs + 1
    /\ UNCHANGED vacanciesTable /\ normIdle /\ favIdle

\* the HH pipeline task of the gather completes
HHPipelineDone(r, answer) ==
    /\ req[r].pc = "fetching"
    /\ req[r].hh.exc = "pending"
    /\ req' = [req EXCEPT ![r].hh = GetVacanciesHHApi(answer, req[r].location)]
    /\ UNCHANGED <<vacanciesTable, runs>> /\ normIdle /\ favIdle

\* the TV pipeline task of the gather completes
TVPipelineDone(r, answer) ==
    /\ req[r].pc = "fetching"
    /\ req[r].tv.exc = "pending"
    /\ req' = [req EXCEPT ![r].tv = GetVacanciesTVApi(answer, req[r].location)]
    /\ UNCHANGED <<vacanciesTable, runs>> /\ normIdle /\ favIdle

\* gather returns; _get_vacancies_data_from_apis builds the outcome and
\* get_vacancies_info raises or goes on to _save_vacancies_data
Aggregate(r) ==
    /\ req[r].pc = "fetching"
    /\ req[r].hh.exc # "pending"
    /\ req[r].tv.exc # "pending"
    /\ LET outcome == GetVacanciesDataFromApis(req[r].hh, req[r].tv)
       IN IF AllSourcesFailed(outcome)
          THEN req' = [req EXCEPT ![r].outcome = outcome, ![r].pc = "done",
                                  ![r].status = "VacanciesServiceError",
                                  ![r].detail = "all sources failed"]
          ELSE req' = [req EXCEPT ![r].outcome = outcome, ![r].pc = "delete"]
    /\ UNCHANGED <<vacanciesTable, runs>> /\ normIdle /\ favIdle

\* _save_vacancies_data called on its own with a locality and a list of rows
CallSaveVacanciesData(r, loc, items) ==
    /\ req[r].op = "idle"
    /\ runs < MaxRuns
    /\ req' = [req EXCEPT ![r] =
                 [Idle EXCEPT !.op = "sync", !.pc = "delete", !.status = "running",
                              !.location = loc, !.run = runs + 1,
                              !.outcome = [NoOutcome EXCEPT
                                              !.vacancies = items,
                                              !.all_vacancies_count = Len(items)]]]
    /\ runs' = runs + 1
    /\ UNCHANGED vacanciesTable /\ normIdle /\ favIdle

\* _save_vacancies_data, line 548: is there anything to insert
NeedsInsert(outcome) == outcome.all_vacancies_count > 0

\* _save_vacancies_data: VacanciesRepository.delete_vacancies_by_location commits
DeleteVacanciesByLocation(r) ==
    /\ req[r].pc = "delete"
    /\ \E dbok \in BOOLEAN :
         IF dbok
         THEN /\ vacanciesTable' = DeleteByLocation(vacanciesTable, req[r].location)
              /\ IF NeedsInsert(req[r].outcome)
                 THEN req' = [req EXCEPT ![r].pc = "insert",
                                         ![r].writes = Append(@, "delete")]
                 ELSE req' = [req EXCEPT ![r].pc = "done", ![r].status = "ok",
                                         ![r].writes = Append(@, "delete")]
         ELSE /\ req' = [req EXCEPT ![r].pc = "done",
                                    ![r].status = "VacanciesRepositoryError",
                                    ![r].detail = "database error"]
              /\ UNCHANGED vacanciesTable
    /\ UNCHANGED runs /\ normIdle /\ favIdle

\* the rows of one run as they are stored
Stamp(rows, run) == [i \in 1..Len(rows) |-> [rows[i] EXCEPT !.gen = run]]

\* _save_vacancies_data: VacanciesRepository.save_vacancies commits or rolls back
SaveVacancies(r) ==
    /\ req[r].pc = "insert"
    /\ LET rows == Stamp(req[r].outcome.vacancies, req[r].run)
       IN \E dbok \in BOOLEAN :
            IF dbok /\ ~ViolatesUnique(vacanciesTable, rows)
            THEN /\ vacanciesTable' = vacanciesTable \o rows
                 /\ req' = [req EXCEPT ![r].pc = "done", ![r].status = "ok",
                                       ![r].writes = Append(@, "insert")]
            ELSE /\ req' = [req EXCEPT ![r].pc = "done",
                                       ![r].status = "VacanciesRepositoryError",
                                       ![r].detail = IF dbok THEN "IntegrityError"
                                                     ELSE "database error"]
                 /\ UNCHANGED vacanciesTable
    /\ UNCHANGED runs /\ normIdle /\ favIdle

\* get_vacancies_by_location up to the answer of get_count_vacancies
ListCount(r, loc, page, page_size) ==
    /\ req[r].op = "idle"
    /\ \E dbok \in BOOLEAN :
         LET total == GetCountVacancies(vacanciesTable, loc)
             started == [Idle EXCEPT !.op = "list", !.status = "running",
                                     !.location = loc, !.page = page,
                                     !.page_size = page_size]
         IN IF ~dbok
            THEN req' = [req EXCEPT ![r] = [started EXCEPT !.pc = "done",
                                               !.status = "VacanciesRepositoryError"]]
            ELSE IF total = 0
            THEN req' = [req EXCEPT ![r] = [started EXCEPT !.pc = "done",
                                               !.status = "ok", !.total = 0]]
            ELSE req' = [req EXCEPT ![r] = [started EXCEPT !.pc = "page",
                                               !.total = total]]
    /\ UNCHANGED <<vacanciesTable, runs>> /\ normIdle /\ favIdle

\* get_vacancies_by_location from the answer of get_vacancies to the return
ListPage(r) ==
    /\ req[r].pc = "page"
    /\ \E dbok \in BOOLEAN :
         IF dbok
         THEN req' = [req EXCEPT ![r].pc = "done", ![r].status = "ok",
                         ![r].items = GetVacancies(vacanciesTable, req[r].location,
                                                   req[r].page, req[r].page_size)]
         ELSE req' = [req EXCEPT ![r].pc = "done",
                                 ![r].status = "VacanciesRepositoryError"]
    /\ UNCHANGED <<vacanciesTable, runs>> /\ normIdle /\ favIdle

\* every stored vacancy sent to the HH endpoint
DispatchBySource_AlwaysHH(source) == "hh_one"

\* get_vacancy_details, lines 219-234: the vendor call chosen for a stored tag
DispatchBySource(source) ==
    IF source = SOURCE_HH THEN "hh_one"
    ELSE IF source = SOURCE_TV THEN "tv_one"
    ELSE "unknown"

\* get_vacancy_details: _get_vacancy_by_id, then the dispatch on the source tag
DetailLookup(r, vacancy_id) ==
    /\ req[r].op = "idle"
    /\ \E dbok \in BOOLEAN :
         LET found == GetVacancyById(vacanciesTable, vacancy_id)
             started == [Idle EXCEPT !.op = "detail", !.status = "running",
                                     !.vacancy_id = vacancy_id]
         IN IF ~dbok \/ Len(found) > 1
            THEN req' = [req EXCEPT ![r] = [started EXCEPT !.pc = "done",
                                               !.status = "VacanciesRepositoryError"]]
            ELSE IF found = <<>>
            THEN req' = [req EXCEPT ![r] = [started EXCEPT !.pc = "done",
                                               !.status = "VacancyNotFoundError",
                                               !.detail = "not stored"]]
            ELSE LET vacancy == found[1]
                     target == DispatchBySource(vacancy.vacancy_source)
                 IN IF target = "hh_one"
                    THEN req' = [req EXCEPT ![r] = [started EXCEPT !.pc = "hh_one",
                                    !.source = vacancy.vacancy_source,
                                    !.calls = {<<"hh_one", vacancy.vacancy_id>>}]]
                    ELSE IF target = "tv_one"
                    THEN req' = [req EXCEPT ![r] = [started EXCEPT !.pc = "tv_one",
                                    !.source = vacancy.vacancy_source,
                                    !.calls = {<<"tv_one", vacancy.vacancy_id,
                                                 vacancy.employer_code>>}]]
                    ELSE req' = [req EXCEPT ![r] = [started EXCEPT !.pc = "done",
                                    !.source = vacancy.vacancy_source,
                                    !.status = "VacanciesServiceError",
                                    !.detail = "unknown source"]]
    /\ UNCHANGED <<vacanciesTable, runs>> /\ normIdle /\ favIdle

\* get_vacancy_details: _get_vacancy_details_hh_api answers, the result is validated
DetailHHDone(r, answer) ==
    /\ req[r].pc = "hh_one"
    /\ LET fetched == GetVacancyDetailsHHApi(answer)
       IN req' = [req EXCEPT ![r].pc = "done", ![r].status = DetailStatus(fetched),
                             ![r].detail = fetched, ![r].answer = answer]
    /\ UNCHANGED <<vacanciesTable, runs>> /\ normIdle /\ favIdle

\* get_vacancy_details: _get_vacancy_details_tv_api answers, the result is validated
DetailTVDone(r, answer) ==
    /\ req[r].pc = "tv_one"
    /\ LET fetched == GetVacancyDetailsTVApi(answer)
       IN req' = [req EXCEPT ![r].pc = "done", ![r].status = DetailStatus(fetched),
                             ![r].detail = fetched, ![r].answer = answer]
    /\ UNCHANGED <<vacanciesTable, runs>> /\ normIdle /\ favIdle

\* the response (or the error) is delivered and the slot serves the next request
Finish(r) ==
    /\ req[r].pc = "done"
    /\ req' = [req EXCEPT ![r] = Idle]
    /\ UNCHANGED <<vacanciesTable, runs>> /\ normIdle /\ favIdle

(***************************************************************************)
(* Favorites: add, remove and the enriched list                            *)
(***************************************************************************)
MaxFavorites == 2   \* rows the favorites table can hold
Users == {1, 2}

\* a row of `favorite_vacancies`: the user and the vacancy's fields as they
\* were stored when it was added
FavRow(user_id, vacancy) ==
    [user_id |-> user_id, vacancy_id |-> vacancy.vacancy_id, stored |-> vacancy]

\* SELECT ... WHERE user_id = user_id, in table order
FavoritesOf(table, user_id) == LET K(row) == row.user_id = user_id IN SelectSeq(table, K)

HasFavorite(table, user_id, vacancy_id) ==
    \E i \in 1..Len(table) : table[i].user_id = user_id /\ table[i].vacancy_id = vacancy_id

\* no constraint on the table
FavViolatesUnique_Never(table, user_id, vacancy_id) == FALSE

\* UniqueConstraint('user_id', 'vacancy_id') rejects the insert
FavViolatesUnique(table, user_id, vacancy_id) == HasFavorite(table, user_id, vacancy_id)

\* a delete that forgets which vacancy it was asked to remove
RemoveFavorite_AllOfUser(table, user_id, vacancy_id) ==
    LET K(row) == row.user_id # user_id IN SelectSeq(table, K)

\* FavoritesRepository.delete_vacancy: the table without the user's entry
RemoveFavorite(table, user_id, vacancy_id) ==
    LET K(row) == ~(row.user_id = user_id /\ row.vacancy_id = vacancy_id)
    IN SelectSeq(table, K)

\* FavoritesRepository.get_favorites_vacancies
GetFavoritesVacancies(table, user_id, page, page_size) ==
    LET rows == FavoritesOf(table, user_id)
        offset == (page - 1) * page_size
        last == IF offset + page_size < Len(rows) THEN offset + page_size ELSE Len(rows)
    IN IF offset >= Len(rows) THEN <<>> ELSE SubSeq(rows, offset + 1, last)

\* add_vacancy_to_favorites up to the answer of _get_vacancy_by_id
AddLookup(r, vacancy_id, user_id) ==
    /\ req[r].op = "idle"
    /\ \E dbok \in BOOLEAN :
         LET found == GetVacancyById(vacanciesTable, vacancy_id)
             started == [Idle EXCEPT !.op = "add_favorite", !.status = "running",
                                     !.vacancy_id = vacancy_id, !.user_id = user_id]
         IN IF ~dbok \/ Len(found) > 1
            THEN req' = [req EXCEPT ![r] = [started EXCEPT !.pc = "done",
                                               !.status = "VacanciesRepositoryError"]]
            ELSE IF found = <<>>
            THEN req' = [req EXCEPT ![r] = [started EXCEPT !.pc = "done",
                                               !.status = "VacancyNotFoundError",
                                               !.detail = "not stored"]]
            ELSE req' = [req EXCEPT ![r] = [started EXCEPT !.pc = "fav_insert",
                                               !.items = found]]
    /\ UNCHANGED <<vacanciesTable, runs, favoritesTable>> /\ normIdle /\ batchIdle

\* add_vacancy_to_favorites: FavoritesRepository.add_vacancy commits or rolls back
AddInsert(r) ==
    /\ req[r].pc = "fav_insert"
    /\ \E dbok \in BOOLEAN :
         IF ~dbok
         THEN /\ req' = [req EXCEPT ![r].pc = "done",
                                    ![r].status = "FavoritesRepositoryError"]
              /\ UNCHANGED favoritesTable
         ELSE IF FavViolatesUnique(favoritesTable, req[r].user_id, req[r].vacancy_id)
         THEN /\ req' = [req EXCEPT ![r].pc = "done",
                                    ![r].status = "VacancyAlreadyInFavoritesError"]
              /\ UNCHANGED favoritesTable
         ELSE /\ Len(favoritesTable) < MaxFavorites
              /\ favoritesTable' =
                     Append(favoritesTable, FavRow(req[r].user_id, req[r].items[1]))
              /\ req' = [req EXCEPT ![r].pc = "done", ![r].status = "ok"]
    /\ UNCHANGED <<vacanciesTable, runs>> /\ normIdle /\ batchIdle

\* delete_vacancy_from_favorites
DeleteVacancyFromFavorites(r, vacancy_id, user_id) ==
    /\ req[r].op = "idle"
    /\ \E dbok \in BOOLEAN :
         LET started == [Idle EXCEPT !.op = "remove_favorite", !.pc = "done",
                                     !.vacancy_id = vacancy_id, !.user_id = user_id]
         IN IF ~dbok
            THEN /\ req' = [req EXCEPT ![r] =
                              [started EXCEPT !.status = "FavoritesRepositoryError"]]
                 /\ UNCHANGED favoritesTable
            ELSE IF ~HasFavorite(favoritesTable, user_id, vacancy_id)
            THEN /\ req' = [req EXCEPT ![r] =
                              [started EXCEPT !.status = "VacancyNotFoundError",
                                              !.detail = "not in favorites"]]
                 /\ UNCHANGED favoritesTable
            ELSE /\ favoritesTable' = RemoveFavorite(favoritesTable, user_id, vacancy_id)
                 /\ req' = [req EXCEPT ![r] = [started EXCEPT !.status = "ok"]]
    /\ UNCHANGED <<vacanciesTable, runs>> /\ normIdle /\ batchIdle

\* get_user_favorites up to the answer of get_count_favorites_vacancies
FavoritesCount(r, user_id, page, page_size) ==
    /\ req[r].op = "idle"
    /\ \E dbok \in BOOLEAN :
         LET total == Len(FavoritesOf(favoritesTable, user_id))
             started == [Idle EXCEPT !.op = "favorites", !.status = "running",
                                     !.user_id = user_id, !.page = page,
                                     !.page_size = page_size]
         IN IF ~dbok
            THEN req' = [req EXCEPT ![r] = [started EXCEPT !.pc = "done",
                                               !.status = "FavoritesRepositoryError"]]
            ELSE IF total = 0
            THEN req' = [req EXCEPT ![r] = [started EXCEPT !.pc = "done",
                                               !.status = "ok", !.total = 0]]
            ELSE req' = [req EXCEPT ![r] = [started EXCEPT !.pc = "fav_page",
                                               !.total = total]]
    /\ UNCHANGED <<vacanciesTable, runs, favoritesTable>> /\ normIdle /\ batchIdle

\* get_user_favorites: the page of stored entries is read
FavoritesPage(r) ==
    /\ req[r].pc = "fav_page"
    /\ \E dbok \in BOOLEAN :
         IF dbok
         THEN req' = [req EXCEPT ![r].pc = "fav_enrich",
                         ![r].items = GetFavoritesVacancies(favoritesTable, req[r].user_id,
                                                            req[r].page, req[r].page_size)]
         ELSE req' = [req EXCEPT ![r].pc = "done",
                                 ![r].status = "FavoritesRepositoryError"]
    /\ UNCHANGED <<vacanciesTable, runs, favoritesTable>> /\ normIdle /\ batchIdle

\* _fetch_one_favorite_vacancy, line 639: the exceptions turned into the
\* entry's stored fields with status "not_found"
Degrades(exc) == exc \in {"VacancyNotFoundError", "HHAPIRequestError", "TVAPIRequestError"}

\* the answers the vendor owning an entry can give to its single-item request
\* (no request is made for an unknown source tag)
AnswersFor(source) ==
    IF source = SOURCE_HH THEN HHOneAnswers
    ELSE IF source = SOURCE_TV THEN TVOneAnswers
    ELSE {"none"}

\* what the task of one stored entry ends in, the vendor answering `answer`
FetchOneFavorite(entry, answer) ==
    LET source == entry.stored.vacancy_source
        fetched == IF source = SOURCE_HH THEN GetVacancyDetailsHHApi(answer)
                   ELSE IF source = SOURCE_TV THEN GetVacancyDetailsTVApi(answer)
                   ELSE "VacancyNotFoundError"
    IN IF fetched \in {"parsed", "parsed_invalid"} THEN fetched
       ELSE IF Degrades(fetched) THEN "not_found"
       ELSE fetched

\* get_user_favorites: _compile_enriched_favorite_vacancies answers (or raises)
\* and the compiled entries are validated
FavoritesEnrich(r) ==
    /\ req[r].pc = "fav_enrich"
    /\ \E answers \in [1..Len(req[r].items) -> HHOneAnswers \cup TVOneAnswers \cup {"none"}] :
         /\ \A i \in 1..Len(req[r].items) :
                answers[i] \in AnswersFor(req[r].items[i].stored.vacancy_source)
         /\ LET ends == [i \in 1..Len(req[r].items) |->
                            FetchOneFavorite(req[r].items[i], answers[i])]
                raised == {i \in 1..Len(ends) :
                              ends[i] \notin {"parsed", "parsed_invalid", "not_found"}}
            IN IF raised # {}
               THEN \E i \in raised :
                      req' = [req EXCEPT ![r].pc = "done", ![r].status = ends[i]]
               ELSE IF \E i \in 1..Len(ends) : ends[i] = "parsed_invalid"
               THEN req' = [req EXCEPT ![r].pc = "done",
                                       ![r].status = "VacanciesServiceError"]
               ELSE req' = [req EXCEPT ![r].pc = "done", ![r].status = "ok"]
    /\ UNCHANGED <<vacanciesTable, runs, favoritesTable>> /\ normIdle /\ batchIdle

\* the favorites requests of the produced interface, made by the given users
FavoriteRequests(users) ==
    \E r \in DOMAIN req :
        \/ \E vacancy_id \in VacancyIds, user_id \in users : AddLookup(r, vacancy_id, user_id)
        \/ AddInsert(r)
        \/ \E vacancy_id \in VacancyIds, user_id \in users :
               DeleteVacancyFromFavorites(r, vacancy_id, user_id)
        \/ \E user_id \in users, page \in 1..MaxPage, page_size \in 1..MaxPageSize :
               FavoritesCount(r, user_id, page, page_size)
        \/ FavoritesPage(r)
        \/ FavoritesEnrich(r)

InitCommon ==
    /\ location = <<>>
    /\ verified = NotVerified
    /\ vacanciesTable \in InitialTables
    /\ runs = 0
    /\ favTasks = <<>>
    /\ semaphore = 0
    /\ batch = [state |-> "idle", n |-> 0, results |-> <<>>, exc |-> "none"]
    /\ favoritesTable = <<>>
    /\ AuxInit

\* one request at a time
Init == InitCommon /\ req = [r \in {1} |-> Idle]

\* NumRequests requests overlap
InitConc == InitCommon /\ req = [r \in 1..NumRequests |-> Idle]

\* the requests of the produced interface, with the vendors answering a
\* listing from the given sets
Requests(hhAnswers, tvAnswers) ==
    \E r \in DOMAIN req :
        \/ \E raw \in SearchInputs, code \in RegionCodes : StartSearch(r, raw, code)
        \/ \E answer \in hhAnswers : HHPipelineDone(r, answer)
        \/ \E answer \in tvAnswers : TVPipelineDone(r, answer)
        \/ Aggregate(r)
        \/ DeleteVacanciesByLocation(r)
        \/ SaveVacancies(r)
        \/ \E loc \in Localities, page \in 1..MaxPage, page_size \in 1..MaxPageSize :
               ListCount(r, loc, page, page_size)
        \/ ListPage(r)
        \/ \E vacancy_id \in VacancyIds : DetailLookup(r, vacancy_id)
        \/ \E answer \in HHOneAnswers : DetailHHDone(r, answer)
        \/ \E answer \in TVOneAnswers : DetailTVDone(r, answer)
        \/ Finish(r)

Next == Requests(HHListingAnswers, TVListingAnswers)

\* overlapping requests: the vendors either fail or answer with well-formed postings
HHListingAnswersConc ==
    {a \in HHListingAnswers :
        a.kind = "request_error" \/ (a.items # <<>> /\ \A i \in 1..Len(a.items) : ~a.items[i].broken)}
TVListingAnswersConc ==
    {a \in TVListingAnswers :
        a.kind = "request_error" \/ (a.items # <<>> /\ \A i \in 1..Len(a.items) : ~a.items[i].broken)}

NextConc == Requests(HHListingAnswersConc, TVListingAnswersConc)

Spec == Init /\ [][Next]_vars

SpecConc == InitConc /\ [][NextConc]_vars

\* all requests, one at a time, favorites included
NextFavorites == Requests(HHListingAnswersConc, TVListingAnswersConc) \/ FavoriteRequests({1})

SpecFavorites == Init /\ [][NextFavorites]_vars

\* favorites requests only: the vacancies table stays as it is
FavStoreTables ==
    (InitialTables \ {<<>>}) \cup
        { <<Row("h1", <<CyrUpper>>, SOURCE_HH, <<"emp", "h1">>, 0),
            Row("t1", <<CyrUpper>>, SOURCE_TV, <<"emp", "t1">>, 0)>> }

InitFavStore ==
    /\ location = <<>>
    /\ verified = NotVerified
    /\ vacanciesTable \in FavStoreTables
    /\ runs = 0
    /\ favTasks = <<>>
    /\ semaphore = 0
    /\ batch = [state |-> "idle", n |-> 0, results |-> <<>>, exc |-> "none"]
    /\ favoritesTable = <<>>
    /\ AuxInit
    /\ req = [r \in {1} |-> Idle]

NextFavStore == FavoriteRequests(Users) \/ \E r \in DOMAIN req : Finish(r)

SpecFavStore == InitFavStore /\ [][NextFavStore]_vars

(***************************************************************************)
(* SpecSync: Persistence Sync and the Paginated Query Service called       *)
(* directly, one call at a time, with any list of rows                     *)
(***************************************************************************)
MaxItems == 2   \* rows in one list handed to _save_vacancies_data

SourceOf(id) == IF id \in HHIds THEN SOURCE_HH ELSE SOURCE_TV

\* the lists of parsed rows of locality loc with at most MaxItems rows
ItemLists(loc) ==
    LET ids == HHIds \cup TVIds
        idLists == UNION {[1..n -> ids] : n \in 0..MaxItems}
    IN {[i \in 1..Len(l) |-> Row(l[i], loc, SourceOf(l[i]), <<"emp", l[i]>>, 0)] : l \in idLists}

NextSync ==
    \E r \in DOMAIN req :
        \/ \E loc \in Localities : \E items \in ItemLists(loc) :
               CallSaveVacanciesData(r, loc, items)
        \/ DeleteVacanciesByLocation(r)
        \/ SaveVacancies(r)
        \/ \E loc \in Localities, page \in 1..MaxPage, page_size \in 1..MaxPageSize :
               ListCount(r, loc, page, page_size)
        \/ ListPage(r)
        \/ Finish(r)

SpecSync == Init /\ [][NextSync]_vars

(***************************************************************************)
(* SpecFav: one call of _compile_enriched_favorite_vacancies               *)
(***************************************************************************)
MaxFav == 6        \* favorite entries on the page handed to the batch
SEMAPHORE_LIMIT == 5

SourceTags == {SOURCE_HH, SOURCE_TV, SOURCE_OTHER}

NoBatch == [state |-> "idle", n |-> 0, results |-> <<>>, exc |-> "none"]
\* what a task returns: the freshly parsed vendor record of entry i, or entry
\* i's own stored fields with the status marker FLAG_VACANCY_NOT_FOUND
NoTaskResult == [status |-> "none", data |-> "none", entry |-> 0]
Enriched(i) == [status |-> "actual", data |-> "vendor", entry |-> i]
Marked(i) == [status |-> "not_found", data |-> "stored", entry |-> i]
Waiting == [pc |-> "waiting", result |-> NoTaskResult]

reqIdle == UNCHANGED <<vacanciesTable, req, runs, favoritesTable>>

\* an acquire that never waits
CanAcquire_Always(value) == TRUE

\* `async with self.semaphore`: acquire goes through when a permit is free
CanAcquire(value) == value > 0

\* gather(*tasks) is awaited over the n entries of the page; the service and
\* its semaphore were built for this request
StartBatch(n) ==
    /\ batch.state = "idle"
    /\ batch' = [NoBatch EXCEPT !.state = "running", !.n = n]
    /\ favTasks' = [i \in 1..n |-> Waiting]
    /\ semaphore' = SEMAPHORE_LIMIT
    /\ reqIdle /\ normIdle

\* the outcome of one task's vendor call: the task returns the parsed record,
\* returns the degraded entry, or raises
TaskEnd(i, fetched) ==
    IF fetched \in {"parsed", "parsed_invalid"}
    THEN /\ favTasks' = [favTasks EXCEPT ![i] = [pc |-> "done", result |-> Enriched(i)]]
         /\ UNCHANGED batch
    ELSE IF Degrades(fetched)
    THEN /\ favTasks' = [favTasks EXCEPT ![i] = [pc |-> "done", result |-> Marked(i)]]
         /\ UNCHANGED batch
    ELSE /\ favTasks' = [favTasks EXCEPT ![i] = [pc |-> "raised", result |-> NoTaskResult]]
         /\ batch' = IF batch.state = "running"
                     THEN [batch EXCEPT !.state = "raised", !.exc = fetched]
                     ELSE batch

\* task i enters `async with self.semaphore` (waiters are served in order) and
\* dispatches on the entry's stored source tag
TaskAcquire(i, tag) ==
    /\ i \in DOMAIN favTasks
    /\ favTasks[i].pc = "waiting"
    /\ \A j \in 1..(i - 1) : favTasks[j].pc # "waiting"
    /\ CanAcquire(semaphore)
    /\ IF tag = SOURCE_HH
       THEN /\ favTasks' = [favTasks EXCEPT ![i].pc = "hh_one"]
            /\ semaphore' = semaphore - 1
            /\ UNCHANGED batch
       ELSE IF tag = SOURCE_TV
       THEN /\ favTasks' = [favTasks EXCEPT ![i].pc = "tv_one"]
            /\ semaphore' = semaphore - 1
            /\ UNCHANGED batch
       ELSE /\ TaskEnd(i, "VacancyNotFoundError")
            /\ UNCHANGED semaphore
    /\ reqIdle /\ normIdle

\* the HH call of task i answers; the task leaves the `async with`
TaskHHDone(i, answer) ==
    /\ i \in DOMAIN favTasks
    /\ favTasks[i].pc = "hh_one"
    /\ TaskEnd(i, GetVacancyDetailsHHApi(answer))
    /\ semaphore' = semaphore + 1
    /\ reqIdle /\ normIdle

\* the TV call of task i answers; the task leaves the `async with`
TaskTVDone(i, answer) ==
    /\ i \in DOMAIN favTasks
    /\ favTasks[i].pc = "tv_one"
    /\ TaskEnd(i, GetVacancyDetailsTVApi(answer))
    /\ semaphore' = semaphore + 1
    /\ reqIdle /\ normIdle

\* every task returned: gather hands the list of results to the caller
BatchReturn ==
    /\ batch.state = "running"
    /\ \A i \in DOMAIN favTasks : favTasks[i].pc = "done"
    /\ batch' = [batch EXCEPT !.state = "returned",
                              !.results = [i \in DOMAIN favTasks |-> favTasks[i].result]]
    /\ UNCHANGED <<favTasks, semaphore>>
    /\ reqIdle /\ normIdle

InitFav ==
    /\ location = <<>>
    /\ verified = NotVerified
    /\ vacanciesTable = <<>>
    /\ req = <<>>
    /\ runs = 0
    /\ favTasks = <<>>
    /\ semaphore = SEMAPHORE_LIMIT
    /\ batch = NoBatch
    /\ favoritesTable = <<>>
    /\ AuxInit

NextFav ==
    \/ \E n \in 0..MaxFav : StartBatch(n)
    \/ \E i \in 1..MaxFav, tag \in SourceTags : TaskAcquire(i, tag)
    \/ \E i \in 1..MaxFav, answer \in HHOneAnswers : TaskHHDone(i, answer)
    \/ \E i \in 1..MaxFav, answer \in TVOneAnswers : TaskTVDone(i, answer)
    \/ BatchReturn

SpecFav == InitFav /\ [][NextFav]_vars

(***************************************************************************)
(* SpecParse: the list parsers applied to one raw posting whose optional   *)
(* upstream fields are absent, null or filled                              *)
(***************************************************************************)
Absent == "absent"        \* the key is not in the dict
Null == "null"            \* the key is there with the value null
Filled == "value"         \* the key is there with a non-empty value
FieldStates == {Absent, Null, Filled}

None == "None"                 \* Python's None in a parsed field
Placeholder == "placeholder"   \* one of the DEFAULT_* texts
Value == "value"               \* the upstream value

\* d.get(key)
Get(f) == IF f = Filled THEN Value ELSE None
\* d.get(key, default)
GetDefault(f) == IF f = Absent THEN Placeholder ELSE IF f = Null THEN None ELSE Value
\* d.get(key) or default
GetOr(f) == IF f = Filled THEN Value ELSE Placeholder

\* a nested object: absent, null, or a dict whose keys a and b are in the given states
Objects(keys) ==
    { [present |-> p, a |-> Absent, b |-> Absent] : p \in {Absent, Null} }
      \cup { [present |-> Filled, a |-> x, b |-> y] : x \in keys, y \in keys }

\* raw postings of the trudvsem listing: job-name, vac_url, salary, schedule,
\* employment, contact_list and company {name, companycode}
TVRawRecords ==
    { [vendor |-> "tv", name |-> n, url |-> u, salary |-> s, schedule |-> sc,
       employment |-> e, contacts |-> c, company |-> co] :
         n \in FieldStates, u \in FieldStates, s \in FieldStates, sc \in FieldStates,
         e \in FieldStates, c \in FieldStates, co \in Objects(FieldStates) }

\* an amount of the hh salary object: the key absent, null, or a number
Amount(state, n) == [state |-> state, n |-> n]
NoAmounts == {Amount(Absent, 0), Amount(Null, 0)}
Amounts(numbers) == NoAmounts \cup {Amount(Filled, n) : n \in numbers}

\* the "salary" key of an hh posting: absent, null, or {from, to}
HHSalaries ==
    { [present |-> p, from |-> Amount(Absent, 0), to |-> Amount(Absent, 0)] :
          p \in {Absent, Null} }
      \cup { [present |-> Filled, from |-> f, to |-> t] :
                f \in Amounts({0, 50000}), t \in Amounts({0, 80000}) }

\* Python's truth value of d.get(key) for an amount
Truthy(amount) == amount.state = Filled /\ amount.n # 0

DEFAULT_SALARY == Placeholder

\* _get_vacancy_salary_hh: `ot` and `do` stand for the Cyrillic words of the
\* f-strings ("from" and "to")
GetVacancySalaryHH(salary) ==
    IF salary.present # Filled THEN DEFAULT_SALARY             \* `or {}`, then `not salary_info`
    ELSE IF salary.from.state = Absent /\ salary.to.state = Absent
         THEN DEFAULT_SALARY                                   \* an empty dict is falsy
    ELSE IF Truthy(salary.from) /\ Truthy(salary.to)
         THEN "ot " \o ToString(salary.from.n) \o " do " \o ToString(salary.to.n)
    ELSE IF Truthy(salary.from) THEN "ot " \o ToString(salary.from.n)
    ELSE IF Truthy(salary.to) THEN "do " \o ToString(salary.to.n)
    ELSE DEFAULT_SALARY

\* raw postings of the hh listing: name, alternate_url, salary {from, to},
\* contacts, employer {name, id} and schedule {name}
HHRawRecords ==
    { [vendor |-> "hh", name |-> n, url |-> u, salary |-> s, schedule |-> sc,
       contacts |-> c, employer |-> em] :
         n \in FieldStates, u \in FieldStates, s \in HHSalaries,
         sc \in {o \in Objects(FieldStates) : o.b = Absent},
         c \in FieldStates, em \in Objects(FieldStates) }

ParseError == [status |-> "VacancyParseError"]

\* parce_vacancies_tv, the body of the loop for one posting
ParceOneTV(raw) ==
    IF raw.company.present = Null THEN ParseError     \* None.get("companycode")
    ELSE [status |-> "ok",
          name |-> Get(raw.name),
          salary |-> GetOr(raw.salary),
          vacancy_url |-> Get(raw.url),
          employer_name |-> IF raw.company.present = Absent THEN None
                            ELSE Get(raw.company.a),
          employer_phone |-> GetOr(raw.contacts),
          employer_code |-> IF raw.company.present = Absent THEN None
                            ELSE Get(raw.company.b),
          employment_type |-> GetOr(raw.employment),
          schedule |-> Get(raw.schedule)]

\* parce_vacancies_hh, the body of the loop for one posting
ParceOneHH(raw) ==
    IF raw.employer.present = Null THEN ParseError    \* None.get("id", ...)
    ELSE IF raw.schedule.present = Null THEN ParseError
    ELSE IF raw.employer.present = Filled /\ raw.employer.a = Null
         THEN ParseError                              \* None.replace(...)
    ELSE [status |-> "ok",
          name |-> Get(raw.name),
          salary |-> GetVacancySalaryHH(raw.salary),
          vacancy_url |-> Get(raw.url),
          employer_name |-> IF raw.employer.present = Absent THEN Placeholder
                            ELSE GetOr(raw.employer.a),
          employer_phone |-> GetOr(raw.contacts),
          employer_code |-> IF raw.employer.present = Absent THEN Placeholder
                            ELSE GetDefault(raw.employer.b),
          schedule |-> IF raw.schedule.present = Absent THEN Placeholder
                       ELSE GetDefault(raw.schedule.a)]

parseOthersIdle ==
    UNCHANGED <<location, verified, vacanciesTable, req, runs, favTasks, semaphore,
                batch, favoritesTable, fetchLog, listing>>

\* a vendor listing hands one posting to its parser
ParseTV ==
    /\ rawRecord.vendor = "tv"
    /\ parsedRecord = NotParsed
    /\ parsedRecord' = ParceOneTV(rawRecord)
    /\ UNCHANGED rawRecord /\ parseOthersIdle

ParseHH ==
    /\ rawRecord.vendor = "hh"
    /\ parsedRecord = NotParsed
    /\ parsedRecord' = ParceOneHH(rawRecord)
    /\ UNCHANGED rawRecord /\ parseOthersIdle

InitParse ==
    /\ location = <<>>
    /\ verified = NotVerified
    /\ vacanciesTable = <<>>
    /\ req = <<>>
    /\ runs = 0
    /\ favTasks = <<>>
    /\ semaphore = 0
    /\ batch = NoBatch
    /\ favoritesTable = <<>>
    /\ fetchLog = <<>>
    /\ listing = NoListing
    /\ rawRecord \in TVRawRecords \cup HHRawRecords
    /\ parsedRecord = NotParsed

NextParse == ParseTV \/ ParseHH

SpecParse == InitParse /\ [][NextParse]_vars

ParsedFields == {"name", "salary", "vacancy_url", "employer_name", "employer_phone",
                 "employer_code", "schedule"}

\* C16: every record produced by either list parser has every field non-null:
\* whatever optional upstream field is absent, the parsed field carries a
\* placeholder text, never None.
C16_ParsedFieldsNonNull ==
    parsedRecord.status = "ok" =>
        \A f \in ParsedFields : parsedRecord[f] # None

\* the amount is there: the key is in the salary object with a number
AmountPresent(amount) == amount.state = Filled

\* C21: the hh salary text is determined by the optional {from, to} pair: both
\* present gives "ot X do Y", only from gives "ot X", only to gives "do Y", and
\* a missing salary object or both values missing gives the placeholder.
C21_SalaryFourForms ==
    (rawRecord.vendor = "hh" /\ parsedRecord.status = "ok") =>
        LET sal == rawRecord.salary
            hasFrom == sal.present = Filled /\ AmountPresent(sal.from)
            hasTo == sal.present = Filled /\ AmountPresent(sal.to)
        IN parsedRecord.salary =
             IF hasFrom /\ hasTo
             THEN "ot " \o ToString(sal.from.n) \o " do " \o ToString(sal.to.n)
             ELSE IF hasFrom THEN "ot " \o ToString(sal.from.n)
             ELSE IF hasTo THEN "do " \o ToString(sal.to.n)
             ELSE Placeholder

(***************************************************************************)
(* SpecFetch: the two clients asked for a listing or for one posting, the  *)
(* vendor answering with any HTTP outcome                                  *)
(***************************************************************************)
MaxFetches == 2    \* requests recorded in one behaviour

\* what httpx.AsyncClient.get, raise_for_status and response.json() can end in
HttpOutcomes == {"200", "404", "500", "network_error", "timeout", "bad_body"}

\* the body of a 200 answer: postings, or one of the empty shapes
ListingBodies == {"ok", "empty"}
OneBodies == {"ok", "empty_record", "no_vacancies", "empty_list"}

\* HHClient._request_to_api_hh; attempts counts the calls of httpx_client.get
RequestToApiHH(http) ==
    CASE http = "200" -> [status |-> TRUE,  search_status |-> "success",       attempts |-> 1]
      [] http = "404" -> [status |-> TRUE,  search_status |-> "not_found",     attempts |-> 1]
      [] OTHER        -> [status |-> FALSE, search_status |-> "request_error", attempts |-> 1]

\* TVClient._request_to_api_tv
RequestToApiTV(http) ==
    CASE http = "200" -> [status |-> TRUE,  attempts |-> 1]
      [] OTHER        -> [status |-> FALSE, attempts |-> 1]

\* the answer HHClient.get_vacansies_in_location works on
HHListingAnswer(http, body) ==
    LET reply == RequestToApiHH(http) IN
    IF ~reply.status THEN [kind |-> "request_error", items |-> <<>>]
    ELSE IF reply.search_status = "not_found" THEN [kind |-> "not_found", items |-> <<>>]
    ELSE IF body = "empty" THEN [kind |-> "ok", items |-> <<>>]
    ELSE [kind |-> "ok", items |-> <<Raw("h1", FALSE)>>]

\* the answer TVClient.get_vacansies_in_region works on
TVListingAnswer(http, body) ==
    LET reply == RequestToApiTV(http) IN
    IF ~reply.status THEN [kind |-> "request_error", items |-> <<>>]
    ELSE IF body = "empty" THEN [kind |-> "ok", items |-> <<>>]
    ELSE [kind |-> "ok", items |-> <<Raw("t1", FALSE)>>]

\* the answer HHClient.get_one_vacancy hands to _get_vacancy_details_hh_api
HHOneAnswer(http, body) ==
    LET reply == RequestToApiHH(http) IN
    IF ~reply.status THEN "request_error"
    ELSE IF reply.search_status = "not_found" THEN "not_found"
    ELSE "ok"

\* the answer TVClient.get_one_vacancy works on
TVOneAnswer(http, body) ==
    IF ~RequestToApiTV(http).status THEN "request_error" ELSE body

\* how the outcome of a pipeline reads for its caller
Surfaced(exc) ==
    CASE exc \in {"HHAPIRequestError", "TVAPIRequestError"}          -> "RequestFailed"
      [] exc \in {"VacanciesNotFoundError", "VacancyNotFoundError"} -> "NotFound"
      [] exc \in {"none", "parsed"}                                  -> "Data"
      [] OTHER                                                       -> exc

\* one request of one client, from the HTTP outcome to what the service sees
FetchOutcome(vendor, kind, http, body) ==
    CASE vendor = "hh" /\ kind = "listing" ->
             Surfaced(GetVacanciesHHApi(HHListingAnswer(http, body), <<CyrUpper>>).exc)
      [] vendor = "tv" /\ kind = "listing" ->
             Surfaced(GetVacanciesTVApi(TVListingAnswer(http, body), <<CyrUpper>>).exc)
      [] vendor = "hh" /\ kind = "one" ->
             Surfaced(GetVacancyDetailsHHApi(HHOneAnswer(http, body)))
      [] OTHER ->
             Surfaced(GetVacancyDetailsTVApi(TVOneAnswer(http, body)))

FetchAttempts(vendor, http) ==
    IF vendor = "hh" THEN RequestToApiHH(http).attempts ELSE RequestToApiTV(http).attempts

fetchOthersIdle ==
    UNCHANGED <<location, verified, vacanciesTable, req, runs, favTasks, semaphore,
                batch, favoritesTable, rawRecord, parsedRecord, listing>>

Fetch(vendor, kind, http, body) ==
    /\ Len(fetchLog) < MaxFetches
    /\ fetchLog' = Append(fetchLog,
                     [vendor |-> vendor, kind |-> kind, http |-> http, body |-> body,
                      surfaced |-> FetchOutcome(vendor, kind, http, body),
                      attempts |-> FetchAttempts(vendor, http)])
    /\ fetchOthersIdle

FetchHHListing == \E http \in HttpOutcomes, body \in ListingBodies :
                      (http = "200" \/ body = "empty") /\ Fetch("hh", "listing", http, body)
FetchTVListing == \E http \in HttpOutcomes, body \in ListingBodies :
                      (http = "200" \/ body = "empty") /\ Fetch("tv", "listing", http, body)
FetchHHOne == \E http \in HttpOutcomes : Fetch("hh", "one", http, "ok")
FetchTVOne == \E http \in HttpOutcomes, body \in OneBodies :
                  (http = "200" \/ body = "empty_record") /\ Fetch("tv", "one", http, body)

InitFetch ==
    /\ location = <<>>
    /\ verified = NotVerified
    /\ vacanciesTable = <<>>
    /\ req = <<>>
    /\ runs = 0
    /\ favTasks = <<>>
    /\ semaphore = 0
    /\ batch = NoBatch
    /\ favoritesTable = <<>>
    /\ AuxInit

NextFetch == FetchHHListing \/ FetchTVListing \/ FetchHHOne \/ FetchTVOne

SpecFetch == InitFetch /\ [][NextFetch]_vars

(***************************************************************************)
(* SpecListing: one listing fetch of one client, page by page.  Page 0 is  *)
(* the first request; the vendor's answer to it reports count_pages, and   *)
(* pages 1..count_pages-1 are the remaining requests.  The items of page p *)
(* are written <<p>>.                                                      *)
(***************************************************************************)
MaxListingPages == 3   \* the largest page count a vendor reports

FIRST_ELEMENT == 1

Unissued == [state |-> "unissued", http |-> "", sent |-> 0]
Issued(page) == [page EXCEPT !.state = "in_flight", !.sent = @ + 1]
Answered(page, http) == [page EXCEPT !.state = "answered", !.http = http]

\* the items the response_data of page p carries: .get("items", []) and
\* .get("results", {}).get("vacancies", []) of an empty response_data are []
PageItems(p, http) == IF http = "200" THEN <<p>> ELSE <<>>

listingOthersIdle ==
    UNCHANGED <<location, verified, vacanciesTable, req, runs, favTasks, semaphore,
                batch, favoritesTable, rawRecord, parsedRecord, fetchLog>>

ListingDone(result, items) ==
    [listing EXCEPT !.pc = "done", !.result = result, !.items = items]

\* get_vacansies_in_location / get_vacansies_in_region up to the first await
StartListing(vendor) ==
    /\ listing.pc = "idle"
    /\ listing' = [listing EXCEPT !.vendor = vendor, !.pc = "first"]
    /\ listingOthersIdle

\* HHClient.get_vacansies_in_location from the first answer to the next await:
\* _get_many_vacansies_in_location enters its loop and awaits page 1
HHFirstPageDone(http, pages_reported) ==
    /\ listing.vendor = "hh" /\ listing.pc = "first"
    /\ LET reply == RequestToApiHH(http)
           count_pages == IF http = "200" THEN pages_reported ELSE 0
           found == IF count_pages = 0 THEN <<>> ELSE PageItems(0, http)
       IN IF ~reply.status
          THEN listing' = [ListingDone("HHAPIRequestError", <<>>) EXCEPT !.first = http]
          ELSE IF count_pages > FIRST_ELEMENT
          THEN listing' = [listing EXCEPT
                              !.first = http, !.pc = "pages", !.count_pages = count_pages,
                              !.items = found,
                              !.pages = [p \in 1..(count_pages - 1) |->
                                            IF p = 1 THEN Issued(Unissued) ELSE Unissued]]
          ELSE listing' = [ListingDone("ok", found) EXCEPT
                              !.first = http, !.count_pages = count_pages]
    /\ listingOthersIdle

\* the page the loop of _get_many_vacansies_in_location is awaiting
HHCurrentPage == CHOOSE p \in DOMAIN listing.pages : listing.pages[p].state = "in_flight"

\* _get_many_vacansies_in_location, lines 99-105: `if not status: raise`
HHPageStops(reply) == ~reply.status

\* _get_many_vacansies_in_location: one turn of the loop, from the answer of
\* the awaited page to the await of the next page or to the return
HHPageDone(http) ==
    /\ listing.vendor = "hh" /\ listing.pc = "pages"
    /\ LET p == HHCurrentPage
           reply == RequestToApiHH(http)
           answered == [listing.pages EXCEPT ![p] = Answered(@, http)]
           all_vacancies == listing.items \o PageItems(p, http)
       IN IF HHPageStops(reply)
          THEN listing' = [ListingDone("HHAPIRequestError", <<>>) EXCEPT !.pages = answered]
          ELSE IF p + 1 < listing.count_pages
          THEN listing' = [listing EXCEPT
                              !.items = all_vacancies,
                              !.pages = [answered EXCEPT ![p + 1] = Issued(@)]]
          ELSE listing' = [ListingDone("ok", all_vacancies) EXCEPT !.pages = answered]
    /\ listingOthersIdle

\* TVClient.get_vacansies_in_region from the first answer to the next await:
\* asyncio.gather wraps every coroutine of _create_vacancies_tasks in a task,
\* and each task runs up to its httpx get before any answer is handled
TVFirstPageDone(http, pages_reported) ==
    /\ listing.vendor = "tv" /\ listing.pc = "first"
    /\ LET reply == RequestToApiTV(http)
           count_pages == IF http = "200" THEN pages_reported ELSE 0
           first_page_vacansies == IF count_pages = 0 THEN <<>> ELSE PageItems(0, http)
       IN IF ~reply.status
          THEN listing' = [ListingDone("TVAPIRequestError", <<>>) EXCEPT !.first = http]
          ELSE IF count_pages > FIRST_ELEMENT
          THEN listing' = [listing EXCEPT
                              !.first = http, !.pc = "pages", !.count_pages = count_pages,
                              !.items = first_page_vacansies,
                              !.pages = [p \in 1..(count_pages - 1) |-> Issued(Unissued)]]
          ELSE listing' = [ListingDone("ok", first_page_vacansies) EXCEPT
                              !.first = http, !.count_pages = count_pages]
    /\ listingOthersIdle

\* one task of the gather gets its answer
TVPageAnswered(p, http) ==
    /\ listing.vendor = "tv" /\ listing.pc = "pages"
    /\ p \in DOMAIN listing.pages
    /\ listing.pages[p].state = "in_flight"
    /\ listing' = [listing EXCEPT !.pages[p] = Answered(@, http)]
    /\ listingOthersIdle

RECURSIVE ExtendPages(_, _, _)
\* first_page_vacansies.extend(vacancies_for_page) for the results from index p on
ExtendPages(items, pages, p) ==
    IF p > Len(pages) THEN items
    ELSE ExtendPages(items \o PageItems(p, pages[p].http), pages, p + 1)

\* the pages whose status is false are left out of the list
TVCollect_SkipsFailed(items, pages) ==
    [result |-> "ok", items |-> ExtendPages(items, pages, 1)]

\* _get_many_vacansies_in_region, lines 105-126: the loop over the results
TVCollect(items, pages) ==
    IF \E p \in DOMAIN pages : ~RequestToApiTV(pages[p].http).status
    THEN [result |-> "TVAPIRequestError", items |-> <<>>]
    ELSE [result |-> "ok", items |-> ExtendPages(items, pages, 1)]

\* _get_many_vacansies_in_region after the gather: every task has answered
TVGatherReturn ==
    /\ listing.vendor = "tv" /\ listing.pc = "pages"
    /\ \A p \in DOMAIN listing.pages : listing.pages[p].state = "answered"
    /\ LET collected == TVCollect(listing.items, listing.pages)
       IN listing' = ListingDone(collected.result, collected.items)
    /\ listingOthersIdle

InitListing ==
    /\ location = <<>>
    /\ verified = NotVerified
    /\ vacanciesTable = <<>>
    /\ req = <<>>
    /\ runs = 0
    /\ favTasks = <<>>
    /\ semaphore = 0
    /\ batch = NoBatch
    /\ favoritesTable = <<>>
    /\ AuxInit

NextListing ==
    \/ \E vendor \in {"hh", "tv"} : StartListing(vendor)
    \/ \E http \in HttpOutcomes, n \in 0..MaxListingPages :
           (http = "200" \/ n = 0) /\ HHFirstPageDone(http, n)
    \/ \E http \in HttpOutcomes : HHPageDone(http)
    \/ \E http \in HttpOutcomes, n \in 0..MaxListingPages :
           (http = "200" \/ n = 0) /\ TVFirstPageDone(http, n)
    \/ \E p \in 1..MaxListingPages, http \in HttpOutcomes : TVPageAnswered(p, http)
    \/ TVGatherReturn

SpecListing == InitListing /\ [][NextListing]_vars

\* C23: for both fetchers the requests for the remaining pages are issued
\* concurrently: while the multi-page fetch runs, every remaining page has its
\* request started (none waits for the answer of the page before it), and
\* each page index is requested exactly once.
C23_RemainingPagesConcurrent ==
    listing.pc = "pages" =>
        \A p \in DOMAIN listing.pages :
            listing.pages[p].state # "unissued" /\ listing.pages[p].sent = 1

\* the request of a page ended in a network or HTTP-status failure
PageFailed(http) == http \in {"500", "network_error", "timeout", "bad_body"}

\* the pages 0..n-1 in order
PagesUpTo(n) == [i \in 1..n |-> i - 1]

\* C24: a multi-page listing fetch is all-or-nothing: if the request of any
\* page failed, the fetch ends in the request error with no items; if every
\* page succeeded, the result holds the items of every page.
C24_AllPagesOrNothing ==
    listing.pc = "done" =>
        LET answered == {p \in DOMAIN listing.pages : listing.pages[p].state = "answered"}
            anyFailed == PageFailed(listing.first)
                           \/ \E p \in answered : PageFailed(listing.pages[p].http)
            allOk == /\ listing.first = "200"
                     /\ \A p \in DOMAIN listing.pages :
                            p \in answered /\ listing.pages[p].http = "200"
        IN /\ anyFailed =>
                /\ listing.result \in {"HHAPIRequestError", "TVAPIRequestError"}
                /\ listing.items = <<>>
           /\ allOk =>
                /\ listing.result = "ok"
                /\ listing.items = PagesUpTo(listing.count_pages)

\* a fetch of three pages failed as a whole on its last page although the
\* pages before it had answered with items
C24_Witness ==
    /\ listing.pc = "done" /\ listing.count_pages = 3
    /\ listing.first = "200"
    /\ listing.pages[1].state = "answered" /\ listing.pages[1].http = "200"
    /\ listing.pages[2].state = "answered" /\ PageFailed(listing.pages[2].http)
    /\ listing.result \in {"HHAPIRequestError", "TVAPIRequestError"}
    /\ listing.items = <<>>

\* C19: both fetchers classify vendor responses the same way, for listing and
\* single-item requests: a 404 or an empty answer is surfaced as NotFound,
\* every network error, timeout or other HTTP error status as RequestFailed,
\* and no request is sent more than once.
C19_SameClassification ==
    \A i \in 1..Len(fetchLog) :
        LET e == fetchLog[i] IN
        /\ e.http = "404" => e.surfaced = "NotFound"
        /\ (e.http = "200" /\ e.kind = "listing" /\ e.body = "empty") => e.surfaced = "NotFound"
        /\ e.http \in {"500", "network_error", "timeout"} => e.surfaced = "RequestFailed"
        /\ e.attempts = 1

(***************************************************************************)
(* Properties of search, sync, list and detail                             *)
(***************************************************************************)
\* a source pipeline ended with a fetch error or a parse error
PipelineFailed(res) ==
    res.exc \in {"HHAPIRequestError", "TVAPIRequestError", "VacancyParseError", "Exception"}
PipelineOk(res) == res.exc = "none"

\* the outcome of an aggregation in which only `failed` failed
Degraded(q, survivor, failedFlag, survivorFlag, failedCount, survivorCount) ==
    /\ q.pc \in {"delete", "insert", "done"}
    /\ q.status # "VacanciesServiceError"
    /\ failedFlag /\ ~survivorFlag
    /\ failedCount = 0
    /\ survivorCount = survivor.vacancies_count
    /\ q.outcome.all_vacancies_count = survivor.vacancies_count
    /\ q.outcome.vacancies = survivor.vacancies

C2_BothFailNoWrite ==
    \A r \in DOMAIN req :
        LET q == req[r] IN
        (q.op = "search" /\ q.pc # "fetching"
            /\ PipelineFailed(q.hh) /\ PipelineFailed(q.tv)) =>
            /\ q.pc = "done"
            /\ q.status = "VacanciesServiceError"
            /\ q.writes = <<>>

\* a search raised the total failure and the locality still has its stored rows
C2_Witness ==
    \E r \in DOMAIN req :
        /\ req[r].op = "search" /\ req[r].status = "VacanciesServiceError"
        /\ PipelineFailed(req[r].hh) /\ PipelineFailed(req[r].tv)
        /\ RowsOf(vacanciesTable, req[r].location) # <<>>

\* C3: sync deletes the locality's rows and only then inserts the new list
\* (no insert for an empty list); when it returns, the locality holds exactly
\* the new list and no row of an earlier generation.
C3_SyncReplaces ==
    \A r \in DOMAIN req :
        LET q == req[r]
            stored == {i \in 1..Len(vacanciesTable) : vacanciesTable[i].location = q.location}
        IN
        /\ (q.op = "sync" /\ q.pc = "insert") => (q.writes = <<"delete">> /\ stored = {})
        /\ (q.op = "sync" /\ q.pc = "done" /\ q.status = "ok") =>
              /\ Cardinality(stored) = Len(q.outcome.vacancies)
              /\ \A i \in stored : vacanciesTable[i].gen = q.run
              /\ \A k \in 1..Len(q.outcome.vacancies) :
                    \E i \in stored :
                        vacanciesTable[i].vacancy_id = q.outcome.vacancies[k].vacancy_id
              /\ q.writes = IF q.outcome.vacancies = <<>> THEN <<"delete">>
                            ELSE <<"delete", "insert">>

\* the second sync of a behaviour returned after storing two rows
C3_Witness ==
    \E r \in DOMAIN req :
        /\ req[r].op = "sync" /\ req[r].pc = "done" /\ req[r].status = "ok"
        /\ req[r].run = 2 /\ Len(req[r].outcome.vacancies) = 2

\* the new generation names no identifier twice
DistinctIds(rows) ==
    \A i, j \in 1..Len(rows) : i # j => rows[i].vacancy_id # rows[j].vacancy_id

\* C15: a vacancy identifier is unique only within one locality's snapshot: a
\* sync whose new generation names each identifier once succeeds whenever the
\* store itself works, also when an identifier is already stored under another
\* locality, and afterwards both rows are stored.
C15_IdUniquePerLocality ==
    \A r \in DOMAIN req :
        LET q == req[r] IN
        (q.op = "sync" /\ q.pc = "done" /\ q.detail # "database error"
            /\ DistinctIds(q.outcome.vacancies)) =>
            /\ q.status = "ok"
            /\ \A k \in 1..Len(q.outcome.vacancies) :
                  \E i \in 1..Len(vacanciesTable) :
                      /\ vacanciesTable[i].vacancy_id = q.outcome.vacancies[k].vacancy_id
                      /\ vacanciesTable[i].location = q.location

\* C18: for every successful search the reported total equals the sum of the
\* two per-source counts, the length of the merged list, and the number of
\* rows stored for the locality right after the search's sync.
C18_TotalsAgree ==
    \A r \in DOMAIN req :
        LET q == req[r]
            stored == {i \in 1..Len(vacanciesTable) : vacanciesTable[i].location = q.location}
        IN (q.op = "search" /\ q.pc = "done" /\ q.status = "ok") =>
              /\ q.outcome.all_vacancies_count =
                     q.outcome.vacancies_count_hh + q.outcome.vacancies_count_tv
              /\ q.outcome.all_vacancies_count = Len(q.outcome.vacancies)
              /\ q.outcome.all_vacancies_count = Cardinality(stored)

\* a search found two HH postings and one TV posting and stored three rows
C18_Witness ==
    \E r \in DOMAIN req :
        /\ req[r].op = "search" /\ req[r].pc = "done" /\ req[r].status = "ok"
        /\ req[r].outcome.vacancies_count_hh = 2
        /\ req[r].outcome.vacancies_count_tv = 1
        /\ req[r].outcome.all_vacancies_count = 3
        /\ Len(RowsOf(vacanciesTable, req[r].location)) = 3

\* C4: the rows stored for one locality all come from one aggregation run.
C4_SingleGeneration ==
    \A i, j \in 1..Len(vacanciesTable) :
        vacanciesTable[i].location = vacanciesTable[j].location =>
            vacanciesTable[i].gen = vacanciesTable[j].gen

Min(a, b) == IF a < b THEN a ELSE b
Max(a, b) == IF a > b THEN a ELSE b

\* C7: list returns total = the locality's stored row count whatever the page,
\* and items = the stored rows at offsets (page-1)*page_size .. +page_size-1,
\* never more than page_size of them.
C7_ListPage ==
    \A r \in DOMAIN req :
        LET q == req[r]
            rows == RowsOf(vacanciesTable, q.location)
            offset == (q.page - 1) * q.page_size
            k == Max(0, Min(q.page_size, Len(rows) - offset))
        IN (q.op = "list" /\ q.pc = "done" /\ q.status = "ok") =>
              /\ q.total = Cardinality({i \in 1..Len(vacanciesTable) :
                                          vacanciesTable[i].location = q.location})
              /\ Len(q.items) = k
              /\ Len(q.items) <= q.page_size
              /\ \A i \in 1..k : q.items[i] = rows[offset + i]

\* the second page of size 2 of a locality with three rows holds the third row
C7_Witness ==
    \E r \in DOMAIN req :
        /\ req[r].op = "list" /\ req[r].pc = "done" /\ req[r].status = "ok"
        /\ req[r].page = 2 /\ req[r].page_size = 2
        /\ req[r].total = 3 /\ Len(req[r].items) = 1

\* C10: detail calls only the HH single-item endpoint (by vendor id) for a
\* stored hh vacancy, only the TV one (by vendor id and employer code) for a
\* stored trudvsem vacancy, raises the unknown-source error without a vendor
\* call for any other tag, and returns a result only after the owning vendor's
\* fetch succeeded in the same call.
C10_DetailDispatch ==
    \A r \in DOMAIN req :
        LET q == req[r]
            found == {i \in 1..Len(vacanciesTable) :
                         vacanciesTable[i].vacancy_id = q.vacancy_id}
        IN q.op = "detail" =>
              /\ found = {} => (q.calls = {} /\ q.status # "ok")
              /\ q.status = "VacanciesRepositoryError" => q.calls = {}
              /\ \A i \in found :
                   LET row == vacanciesTable[i] IN
                   q.status # "VacanciesRepositoryError" =>
                     /\ row.vacancy_source = SOURCE_HH =>
                            q.calls = {<<"hh_one", q.vacancy_id>>}
                     /\ row.vacancy_source = SOURCE_TV =>
                            q.calls = {<<"tv_one", q.vacancy_id, row.employer_code>>}
                     /\ row.vacancy_source \notin {SOURCE_HH, SOURCE_TV} =>
                            /\ q.calls = {}
                            /\ q.pc = "done"
                            /\ q.status = "VacanciesServiceError"
                            /\ q.detail = "unknown source"
              /\ q.status = "ok" => (q.calls # {} /\ q.pc = "done" /\ q.detail = "parsed")

\* the detail of a stored trudvsem vacancy was returned
C10_Witness ==
    \E r \in DOMAIN req :
        /\ req[r].op = "detail" /\ req[r].pc = "done" /\ req[r].status = "ok"
        /\ req[r].source = SOURCE_TV

\* the vendor's single-item answer says it has no such posting
VendorHasNoPosting(q) ==
    \/ q.source = SOURCE_HH /\ q.answer = "not_found"
    \/ q.source = SOURCE_TV /\ q.answer \in {"no_vacancies", "empty_list", "empty_record"}

\* C11: in detail, whenever the owning vendor has no such posting (hh reports
\* not-found; trudvsem answers with no vacancy in the result, an empty vacancy
\* list or an empty vacancy record) the outcome is VacancyNotFoundError.
C11_NoPostingIsNotFound ==
    \A r \in DOMAIN req :
        (req[r].op = "detail" /\ req[r].pc = "done" /\ VendorHasNoPosting(req[r])) =>
            req[r].status = "VacancyNotFoundError"

\* the vendor answered the listing request successfully with no postings
ListingEmpty(res) == res.exc = "VacanciesNotFoundError"

\* C12: a vendor listing with no postings is a normal outcome, not a source
\* failure: its failure flag stays clear, and a search in which both vendors
\* answer with empty listings does not raise the total failure and leaves the
\* locality with zero stored rows.
C12_EmptyListingIsNotFailure ==
    \A r \in DOMAIN req :
        LET q == req[r] IN
        (q.op = "search" /\ q.pc # "fetching") =>
            /\ ListingEmpty(q.hh) => ~q.outcome.error_request_hh
            /\ ListingEmpty(q.tv) => ~q.outcome.error_request_tv
            /\ (ListingEmpty(q.hh) /\ ListingEmpty(q.tv)) =>
                   /\ q.status # "VacanciesServiceError"
                   /\ (q.pc = "done" /\ q.status = "ok") =>
                          RowsOf(vacanciesTable, q.location) = <<>>

(***************************************************************************)
(* Properties of the favorites batch                                       *)
(***************************************************************************)
\* C5: the batch never raises because of one item's outcome and returns
\* exactly one result per entry.
C5_OneResultPerEntry ==
    /\ batch.state # "raised"
    /\ batch.state = "returned" => Len(batch.results) = batch.n

InFlight == {i \in DOMAIN favTasks : favTasks[i].pc \in {"hh_one", "tv_one"}}

\* C6: at most 5 per-favorite vendor calls are in flight at any moment.
C6_AtMostFiveInFlight == Cardinality(InFlight) <= 5

\* five calls are in flight while a sixth entry waits for a permit
C6_Witness ==
    /\ Cardinality(InFlight) = 5
    /\ \E i \in DOMAIN favTasks : favTasks[i].pc = "waiting"

\* the awaiting caller has its answer: the list of results or an exception
BatchOver == batch.state \in {"returned", "raised"}

\* C17: when listFavorites returns or raises, none of the enrichment tasks it
\* spawned is still running or waiting, and no semaphore permit is held.
C17_FanOutJoined ==
    BatchOver =>
        /\ \A i \in DOMAIN favTasks : favTasks[i].pc \in {"done", "raised"}
        /\ semaphore = SEMAPHORE_LIMIT

\* the enrichment of entry i ended without fresh vendor data
EnrichmentFailed(i) ==
    favTasks[i].pc = "raised" \/ (favTasks[i].pc = "done" /\ favTasks[i].result.status # "actual")

\* C20: in the result of the favorites batch every entry whose enrichment
\* failed is present as that entry's stored fields with the marker "not_found",
\* every entry whose enrichment succeeded carries the vendor data, and result i
\* belongs to input entry i.
C20_FailedEntriesMarked ==
    BatchOver =>
        \A i \in DOMAIN favTasks :
            /\ EnrichmentFailed(i) =>
                   (i <= Len(batch.results) /\ batch.results[i] = Marked(i))
            /\ (favTasks[i].pc = "done" /\ ~EnrichmentFailed(i)) =>
                   (i <= Len(batch.results) /\ batch.results[i] = Enriched(i))

(***************************************************************************)
(* Properties of the favorites store                                       *)
(***************************************************************************)
\* the step appends one entry of request r's user and vacancy, or removes
\* exactly the entry of the user and vacancy a remove request names
ChangedByAddOrRemove ==
    \E r \in DOMAIN req :
        \/ /\ req[r].op = "add_favorite"
           /\ req'[r].op = "add_favorite" /\ req'[r].status = "ok"
           /\ Len(favoritesTable') = Len(favoritesTable) + 1
           /\ SubSeq(favoritesTable', 1, Len(favoritesTable)) = favoritesTable
           /\ favoritesTable'[Len(favoritesTable')].user_id = req[r].user_id
           /\ favoritesTable'[Len(favoritesTable')].vacancy_id = req[r].vacancy_id
        \/ /\ req[r].op = "idle"
           /\ req'[r].op = "remove_favorite" /\ req'[r].status = "ok"
           /\ LET Kept(row) == ~(row.user_id = req'[r].user_id
                                   /\ row.vacancy_id = req'[r].vacancy_id)
              IN favoritesTable' = SelectSeq(favoritesTable, Kept)

\* C13: stored favorite entries change only through add and remove: every step
\* of search with its sync, list, detail and the enriched favorites list leaves
\* the set and the stored field values of the entries as they were.
C13_FavoritesFrame ==
    [][favoritesTable' # favoritesTable => ChangedByAddOrRemove]_vars

\* a search replaced the rows of a locality while a favorite still holds the
\* fields of a row of that locality stored by an earlier generation
C13_Witness ==
    \E r \in DOMAIN req : \E i \in 1..Len(favoritesTable) :
        /\ req[r].op = "search" /\ req[r].pc = "done" /\ req[r].status = "ok"
        /\ favoritesTable[i].stored.location = req[r].location
        /\ favoritesTable[i].stored.gen # req[r].run

FavoritesUnique ==
    \A i, j \in 1..Len(favoritesTable) :
        (/\ favoritesTable[i].user_id = favoritesTable[j].user_id
         /\ favoritesTable[i].vacancy_id = favoritesTable[j].vacancy_id
         /\ favoritesTable[i].stored.vacancy_source = favoritesTable[j].stored.vacancy_source)
            => i = j

UserHas(user_id, vacancy_id) ==
    \E i \in 1..Len(favoritesTable) :
        favoritesTable[i].user_id = user_id /\ favoritesTable[i].vacancy_id = vacancy_id

\* an add for a vacancy the user already has ends in the already-in-favorites
\* error (or a store failure) and the table is as before
DuplicateAddRejected ==
    \A r \in DOMAIN req :
        (/\ req[r].op = "add_favorite" /\ req[r].pc # "done"
         /\ req'[r].pc = "done"
         /\ UserHas(req[r].user_id, req[r].vacancy_id)) =>
            /\ favoritesTable' = favoritesTable
            /\ req'[r].status \in {"VacancyAlreadyInFavoritesError", "FavoritesRepositoryError"}

\* C14: after any sequence of add and remove calls by any users the favorites
\* table holds at most one entry per (user, vacancy identifier + source), and
\* an add for a vacancy the user already has is rejected with the
\* already-in-favorites error and leaves the table unchanged.
C14_OneEntryPerUserVacancy ==
    /\ []FavoritesUnique
    /\ [](\A r \in DOMAIN req :
             (req[r].op = "add_favorite" /\ req[r].pc = "done"
                 /\ req[r].status \notin {"ok", "VacanciesRepositoryError",
                                          "FavoritesRepositoryError"}
                 /\ UserHas(req[r].user_id, req[r].vacancy_id)) =>
                 req[r].status = "VacancyAlreadyInFavoritesError")
    /\ [][DuplicateAddRejected]_vars

\* an add was rejected as a duplicate while another user holds the same vacancy
C14_Witness ==
    \E r \in DOMAIN req :
        /\ req[r].op = "add_favorite"
        /\ req[r].status = "VacancyAlreadyInFavoritesError"
        /\ UserHas(req[r].user_id, req[r].vacancy_id)
        /\ \E u \in Users \ {req[r].user_id} : UserHas(u, req[r].vacancy_id)

(***************************************************************************)
(* Properties of the sync as a unit                                        *)
(***************************************************************************)
\* request r is a search or a sync that has reached the store
Syncing(r) == req[r].op \in {"search", "sync"} /\ req[r].pc \in {"delete", "insert"}

\* C22: the sync is a single logical unit against the store: every step that
\* changes the rows of a locality leaves the locality with the complete new
\* generation of the run that made the step, never with the old rows gone and
\* the new rows not stored.
C22_SyncIsOneUnit ==
    [][vacanciesTable' # vacanciesTable =>
          \E r \in DOMAIN req :
              /\ Syncing(r)
              /\ RowsOf(vacanciesTable', req[r].location)
                   = Stamp(req[r].outcome.vacancies, req[r].run)]_vars

(***************************************************************************)
(* Properties of the two pipelines as independent tasks                    *)
(***************************************************************************)
\* after the gather: a pipeline that ended without exception has its
\* vacancies and its count in the outcome whatever the other one ended in, a
\* pipeline that raised is flagged, and its exception is not the request's
AwaitedBoth(q) ==
    /\ q.hh.exc # "pending" /\ q.tv.exc # "pending"
    /\ q.hh.exc = "none" =>
           /\ Len(q.outcome.vacancies) >= Len(q.hh.vacancies)
           /\ SubSeq(q.outcome.vacancies, 1, Len(q.hh.vacancies)) = q.hh.vacancies
           /\ q.outcome.vacancies_count_hh = q.hh.vacancies_count
           /\ ~q.outcome.error_request_hh
           /\ q.status # "VacanciesServiceError"
    /\ q.tv.exc = "none" =>
           /\ Len(q.outcome.vacancies) >= Len(q.tv.vacancies)
           /\ LET n == Len(q.outcome.vacancies)
              IN SubSeq(q.outcome.vacancies, n - Len(q.tv.vacancies) + 1, n) = q.tv.vacancies
           /\ q.outcome.vacancies_count_tv = q.tv.vacancies_count
           /\ ~q.outcome.error_request_tv
           /\ q.status # "VacanciesServiceError"
    /\ q.hh.exc # "none" => q.outcome.error_request_hh /\ q.status # q.hh.exc
    /\ q.tv.exc # "none" => q.outcome.error_request_tv /\ q.status # q.tv.exc

\* while the gather is awaited, the end of one pipeline leaves the other
\* pipeline pending and the request in the gather
NeitherCancelsTheOther ==
    \A r \in DOMAIN req :
        (req[r].op = "search" /\ req[r].pc = "fetching"
            /\ (req[r].hh.exc = "pending" \/ req[r].tv.exc = "pending")) =>
           /\ req'[r].pc = "fetching"
           /\ req[r].hh.exc # "pending" => req'[r].hh = req[r].hh
           /\ req[r].tv.exc # "pending" => req'[r].tv = req[r].tv
           /\ (req'[r].hh # req[r].hh) => req'[r].tv = req[r].tv

\* C25: the aggregation runs the HH and TV pipelines as two independent tasks
\* and awaits both: an exception of any kind in one of them neither cancels
\* the other nor propagates, and the other pipeline's vacancies and count are
\* in the outcome.
C25_PipelinesIndependent ==
    /\ [](\A r \in DOMAIN req :
             (req[r].op = "search" /\ req[r].pc \notin {"idle", "fetching"}
                 /\ req[r].calls # {} /\ <<"hh_listing">> \in req[r].calls) =>
                 AwaitedBoth(req[r]))
    /\ [][NeitherCancelsTheOther]_vars

\* the HH pipeline ended in an exception of no expected type, the TV pipeline
\* ended after it with a vacancy, and the search stored that vacancy
C25_Witness ==
    \E r \in DOMAIN req :
        /\ req[r].op = "search" /\ req[r].pc = "done" /\ req[r].status = "ok"
        /\ req[r].hh.exc = "Exception"
        /\ req[r].tv.exc = "none" /\ Len(req[r].tv.vacancies) = 1
        /\ req[r].outcome.vacancies = req[r].tv.vacancies
        /\ RowsOf(vacanciesTable, req[r].location) = Stamp(req[r].tv.vacancies, req[r].run)

(***************************************************************************)
(* Properties of the validation in front of a search                       *)
(***************************************************************************)
ValidationFailures == {"LocationValidationError", "RegionNotFoundError"}

\* a search that ended in a validation failure asked no vendor and wrote
\* nothing; with an invalid locality it did not ask the region table either
RaisedAtOnce(q) ==
    /\ q.pc = "done"
    /\ <<"hh_listing">> \notin q.calls /\ <<"tv_listing">> \notin q.calls
    /\ q.hh.exc = "pending" /\ q.tv.exc = "pending"
    /\ q.writes = <<>>
    /\ q.status = "LocationValidationError" => q.calls = {}

\* C26: when the locality fails normalization or the region code cannot be
\* resolved, the search raises at once: no vendor request is issued, no store
\* row is deleted or inserted, and with an invalid locality the region
\* resolver is not consulted.
C26_ValidationFailsFirst ==
    /\ [](\A r \in DOMAIN req :
             (req[r].op = "search" /\ req[r].status \in ValidationFailures) =>
                 RaisedAtOnce(req[r]))
    /\ [][\A r \in DOMAIN req :
             (req'[r].op = "search" /\ req'[r].status \in ValidationFailures
                 /\ req[r].status \notin ValidationFailures) =>
                 (req[r].op = "idle" /\ vacanciesTable' = vacanciesTable)]_vars

\* a search with an invalid locality ended without a single call while the
\* table still holds its rows
C26_Witness ==
    /\ vacanciesTable # <<>>
    /\ \E r \in DOMAIN req :
          /\ req[r].op = "search" /\ req[r].pc = "done"
          /\ req[r].status = "LocationValidationError" /\ req[r].calls = {}

(***************************************************************************)
(* Properties of a listing that fails to parse                             *)
(***************************************************************************)
SourceRows(rows, source) == LET K(row) == row.vacancy_source = source IN SelectSeq(rows, K)

\* the source whose listing failed to parse counts as a failed fetch does:
\* flag set, count 0, none of its records in the outcome
ParseFailedLikeFetch(flag, count, rows) == flag /\ count = 0 /\ rows = <<>>

\* C27: if any single record of one vendor's listing fails to parse, the whole
\* source is treated like a failed fetch: it contributes no vacancy (none of
\* the records parsed before the failing one), its count is 0 and its flag is
\* set, while the other source's result is unaffected.
C27_ParseFailureFailsSource ==
    \A r \in DOMAIN req :
        LET q == req[r] IN
        (q.op = "search" /\ q.pc \in {"delete", "insert", "done"}
            /\ q.hh.exc # "pending" /\ q.tv.exc # "pending") =>
            /\ q.hh.exc = "VacancyParseError" =>
                  /\ ParseFailedLikeFetch(q.outcome.error_request_hh,
                                          q.outcome.vacancies_count_hh,
                                          SourceRows(q.outcome.vacancies, SOURCE_HH))
                  /\ q.tv.exc = "none" =>
                        /\ q.outcome.vacancies = q.tv.vacancies
                        /\ q.outcome.all_vacancies_count = q.tv.vacancies_count
                        /\ ~q.outcome.error_request_tv
            /\ q.tv.exc = "VacancyParseError" =>
                  /\ ParseFailedLikeFetch(q.outcome.error_request_tv,
                                          q.outcome.vacancies_count_tv,
                                          SourceRows(q.outcome.vacancies, SOURCE_TV))
                  /\ q.hh.exc = "none" =>
                        /\ q.outcome.vacancies = q.hh.vacancies
                        /\ q.outcome.all_vacancies_count = q.hh.vacancies_count
                        /\ ~q.outcome.error_request_hh

\* the HH listing held a record that parsed and one that did not; the search
\* stored the TV vacancy alone
C27_Witness ==
    \E r \in DOMAIN req :
        /\ req[r].op = "search" /\ req[r].pc = "done" /\ req[r].status = "ok"
        /\ req[r].hh.exc = "VacancyParseError" /\ req[r].tv.exc = "none"
        /\ SourceRows(RowsOf(vacanciesTable, req[r].location), SOURCE_HH) = <<>>
        /\ Len(SourceRows(RowsOf(vacanciesTable, req[r].location), SOURCE_TV)) = 1

(***************************************************************************)
(* Properties of the semaphore permits                                     *)
(***************************************************************************)
\* a permit is taken for exactly the time of a vendor call
PermitsAccounted == semaphore + Cardinality(InFlight) = SEMAPHORE_LIMIT

C29_TotalMatchesItems ==
    \A r \in DOMAIN req :
        LET q == req[r]
            offset == (q.page - 1) * q.page_size
        IN (q.op = "list" /\ q.pc = "done" /\ q.status = "ok") =>
              /\ Len(q.items) = Max(0, Min(q.page_size, q.total - offset))
              /\ \A i, j \in 1..Len(q.items) : q.items[i].gen = q.items[j].gen

(***************************************************************************)
(* Properties of the storage key the normalizer makes                      *)
(***************************************************************************)
IsSeparator(c) == c \in {Space, Hyphen}

\* 1 to 3 non-empty parts of Cyrillic letters, each with its first letter
\* upper-case and the rest lower-case, joined by single hyphens or by single
\* spaces
WellFormedKey(key) ==
    /\ Len(key) > 0
    /\ \A i \in 1..Len(key) : key[i] \in {CyrUpper, CyrLower, Space, Hyphen}
    /\ ~IsSeparator(key[1]) /\ ~IsSeparator(key[Len(key)])
    /\ \A i \in 1..(Len(key) - 1) : ~(IsSeparator(key[i]) /\ IsSeparator(key[i + 1]))
    /\ ~(HasHyphen(key) /\ \E i \in 1..Len(key) : key[i] = Space)
    /\ Cardinality({i \in 1..Len(key) : IsSeparator(key[i])}) < MAX_COUNT_PARTS_IN_LOCATION
    /\ \A i \in 1..Len(key) :
          ~IsSeparator(key[i]) =>
              key[i] = (IF i = 1 \/ IsSeparator(key[i - 1]) THEN CyrUpper ELSE CyrLower)

\* C30: every string the normalizer accepts yields a well-formed storage key;
\* in particular no empty or whitespace-only input is accepted.
C30_AcceptedKeyWellFormed ==
    verified.status = "ok" =>
        /\ WellFormedKey(verified.value)
        /\ \E i \in 1..Len(location) : ~IsSpace(location[i])

====
